---- MODULE Spec2Model ----
(***************************************************************************)
(* A model of supersql: the hand-built SQLite connection pool              *)
(* (engines/sqlite.py), the Query builder facade with its QueryState       *)
(* chain and the dialect compiler (core/query.py, core/state.py,           *)
(* core/compiler.py), and Database.execute (core/database.py).             *)
(*                                                                         *)
(* The pool runs on asyncio: a coroutine runs without interruption from    *)
(* one await that suspends to the next, so every action below is the code  *)
(* between two suspension points of one task.                              *)
(***************************************************************************)
EXTENDS Integers, Sequences, FiniteSets, TLC

(***************************************************************************)
(* Bounds of the model.                                                    *)
(***************************************************************************)
\* pool_max_size of the modelled pool (Pool._max_size)
MaxSize == 1
\* number of concurrent tasks that use the pool
NTasks == 3

\* number of builder calls made in one run
MaxCalls == 5

\* builder calls in the fluent chain whose compilation is examined
MaxSteps == 3

\* calls of connect, disconnect, begin and done made in one run
MaxOps == 5

\* the connections one close() call counts; further ones are closed uncounted
MaxCount == 2

Tasks == 1..NTasks
\* a task holds at most one connection and the idle queue holds at most
\* MaxSize, so this many identifiers always leave one unused
ConnIds == 1..(NTasks + MaxSize)
NoConn == 0
NoTask == 0

VARIABLES
    \* ---- engines/sqlite.py: Pool ----
    queue,          \* Pool._queue: the idle connections, oldest first
    getters,        \* Pool._queue._getters: tasks suspended in Queue.get(), oldest first
    woken,          \* tasks whose getter future was resolved by a put and that have not run yet
    current_size,   \* Pool._current_size
    lock_owner,     \* Pool._lock: the task inside `async with self._lock`, or NoTask
    lock_waiters,   \* Pool._lock._waiters: tasks suspended in Lock.acquire(), oldest first
    live,           \* connections opened (__aenter__ returned) and not yet closed (__aexit__)
    pc,             \* where each task is
    held,           \* Connection._connection of each task (what acquire() returned to it)
    closer_pc,      \* where the caller of Pool.close() is
    closer_conn,    \* the connection Pool.close() is closing
    closer_count,   \* `count` of Pool.close(): connections closed by the running or the last call
    called,         \* the tasks that have called Pool.acquire() at least once
    origin,         \* how the connection a task holds was obtained: "new" or "idle"
    \* ---- core/query.py: Query objects ----
    objs,           \* the Query objects, by identity: objs[1] is Query(engine), the rest are clones
    call,           \* the last builder call: method, receiver, returned object, receiver before the call
    ncalls,         \* number of builder calls made so far
    \* ---- core/database.py: Database.execute ----
    borrowed,       \* Engine.pool of a driver: which caller has each connection, or NoTask
    epc,            \* where each caller of Database.execute is
    econn,          \* `connection` inside the `async with` of each caller
    esql,           \* the statements of the string each caller passes to the driver
    nsent,          \* how many of them the server has run on the caller's connection
    wire,           \* per connection, the statements run on it, in order, with their caller
    \* ---- core/query.py, core/compiler.py: one fluent chain and its build() calls ----
    cq,             \* the Query object the chain has reached
    hist,           \* the builder calls of the chain that returned, in order
    builds,         \* what the build() calls made since the last builder call returned
    before,         \* the Query object as it was when the last build() was called
    \* ---- core/database.py, engines/*.py: one Database and one Connection per vendor ----
    db_connected,   \* Database.connected
    engine_pool,    \* Engine.pool: NoPool, or the pool that connect() stored
    pools_made,     \* how many pools the driver has created for the engine
    session,        \* Connection._connection: NoConn, or the connection begin() stored
    lent,           \* the connections the Connection's pool has handed out and not got back
    lastcall,       \* the last call: method, vendor, what it raised, the calls it made to the pool
    nops,           \* number of connect/disconnect/begin/done calls made so far
    \* ---- core/query.py: Query.run, by several tasks on one Query ----
    rpc,            \* where each caller of run() is
    rpool,          \* the pool each caller's Database.execute took from Engine.pool
    rerr,           \* what each caller's run() raised
    close_called,   \* the pools on which close() has been called
    run_vendor      \* the engine of the Query, known from the first run()

poolVars == <<queue, getters, woken, current_size, lock_owner, lock_waiters,
              live, pc, held, closer_pc, closer_conn, closer_count, called, origin>>

queryVars == <<objs, call, ncalls>>

execVars == <<borrowed, epc, econn, esql, nsent, wire>>

compileVars == <<cq, hist, builds, before>>

sessionVars == <<db_connected, engine_pool, pools_made, session, lent, lastcall, nops>>

runVars == <<rpc, rpool, rerr, close_called, run_vendor>>

vars == <<poolVars, queryVars, execVars, compileVars, sessionVars, runVars>>

(***************************************************************************)
(* Helpers on sequences.                                                   *)
(***************************************************************************)
Range(s) == {s[i] : i \in 1..Len(s)}

Without(s, x) == SelectSeq(s, LAMBDA y : y # x)

\* the smallest identifier that names no open connection and that no task still refers to
FreshConn == CHOOSE c \in ConnIds :
                 /\ c \notin live
                 /\ \A t \in Tasks : held[t] # c
                 /\ c # closer_conn
                 /\ \A d \in ConnIds : (d < c) =>
                        (d \in live \/ d = closer_conn \/ \E t \in Tasks : held[t] = d)

\* a task that is in no Pool call
AtRest == {"idle", "timedout", "failed", "cancelled"}

InitPool ==
    /\ queue = <<>>
    /\ getters = <<>>
    /\ woken = {}
    /\ current_size = 0
    /\ lock_owner = NoTask
    /\ lock_waiters = <<>>
    /\ live = {}
    /\ pc = [t \in Tasks |-> "idle"]
    /\ held = [t \in Tasks |-> NoConn]
    /\ closer_pc = "idle"
    /\ closer_conn = NoConn
    /\ closer_count = 0
    /\ called = {}
    /\ origin = [t \in Tasks |-> "none"]

(***************************************************************************)
(* asyncio.Lock: acquire() returns at once when the lock is free and no    *)
(* task waits for it; otherwise the caller joins the waiters and the lock  *)
(* is handed to them oldest first.                                         *)
(***************************************************************************)
\* a lock that excludes nobody
LockNeverHeld == TRUE

LockFree == lock_owner = NoTask /\ lock_waiters = <<>>

LockGranted(t) == lock_owner = NoTask /\ lock_waiters # <<>> /\ Head(lock_waiters) = t

(***************************************************************************)
(* Pool.acquire, lines 134-157: the body of `async with self._lock`, run   *)
(* by task t once it has the lock (waitersAfter is the lock's waiters      *)
(* without t).  Either the size check passes, the counter is incremented   *)
(* and t suspends in connection.__aenter__() holding the lock; or the pool *)
(* is at max_size, the lock is released and t goes on to                   *)
(* wait_for(self._queue.get(), timeout).                                   *)
(***************************************************************************)
\* the size check off by one: `<=` for `<`
CritBodyOffByOne(t, waitersAfter) ==
    /\ lock_waiters' = waitersAfter
    /\ IF current_size <= MaxSize
          THEN /\ current_size' = current_size + 1
               /\ lock_owner' = t
               /\ pc' = [pc EXCEPT ![t] = "opening"]
          ELSE /\ current_size' = current_size
               /\ lock_owner' = NoTask
               /\ pc' = [pc EXCEPT ![t] = "getting"]

CritBody(t, waitersAfter) ==
    /\ lock_waiters' = waitersAfter
    /\ IF current_size < MaxSize
          THEN /\ current_size' = current_size + 1
               /\ lock_owner' = t
               /\ pc' = [pc EXCEPT ![t] = "opening"]
          ELSE /\ current_size' = current_size
               /\ lock_owner' = NoTask
               /\ pc' = [pc EXCEPT ![t] = "getting"]

(***************************************************************************)
(* Pool.acquire, lines 125-134: get_nowait() on the idle queue; when it is *)
(* empty, enter the lock (at once if it is free, else wait for it).        *)
(***************************************************************************)
\* get_nowait() that returns the oldest idle connection and leaves it in the queue
AcquireStartPeek(t) ==
    /\ pc[t] \in AtRest
    /\ called' = called \cup {t}
    /\ IF queue # <<>>
          THEN /\ held' = [held EXCEPT ![t] = Head(queue)]
               /\ queue' = queue
               /\ pc' = [pc EXCEPT ![t] = "holding"]
               /\ origin' = [origin EXCEPT ![t] = "idle"]
               /\ UNCHANGED <<current_size, lock_owner, lock_waiters>>
          ELSE /\ UNCHANGED <<held, queue>>
               /\ origin' = [origin EXCEPT ![t] = "none"]
               /\ IF LockFree
                     THEN CritBody(t, lock_waiters)
                     ELSE /\ lock_waiters' = Append(lock_waiters, t)
                          /\ pc' = [pc EXCEPT ![t] = "lockwait"]
                          /\ UNCHANGED <<current_size, lock_owner>>
    /\ UNCHANGED <<getters, woken, live, closer_pc, closer_conn, closer_count>>

AcquireStart(t) ==
    /\ pc[t] \in AtRest
    /\ called' = called \cup {t}
    /\ IF queue # <<>>
          THEN /\ held' = [held EXCEPT ![t] = Head(queue)]
               /\ queue' = Tail(queue)
               /\ pc' = [pc EXCEPT ![t] = "holding"]
               /\ origin' = [origin EXCEPT ![t] = "idle"]
               /\ UNCHANGED <<current_size, lock_owner, lock_waiters>>
          ELSE /\ UNCHANGED <<held, queue>>
               /\ origin' = [origin EXCEPT ![t] = "none"]
               /\ IF LockFree
                     THEN CritBody(t, lock_waiters)
                     ELSE /\ lock_waiters' = Append(lock_waiters, t)
                          /\ pc' = [pc EXCEPT ![t] = "lockwait"]
                          /\ UNCHANGED <<current_size, lock_owner>>
    /\ UNCHANGED <<getters, woken, live, closer_pc, closer_conn, closer_count>>

\* Pool.acquire, line 134: the lock is handed to t, the oldest waiter
AcquireLocked(t) ==
    /\ pc[t] = "lockwait"
    /\ LockGranted(t)
    /\ CritBody(t, Tail(lock_waiters))
    /\ UNCHANGED <<queue, getters, woken, live, held, closer_pc, closer_conn, closer_count, called, origin>>

\* Pool.acquire, lines 145-148: __aenter__ returns, the new connection is returned
\* and the lock released
OpenDone(t) ==
    /\ pc[t] = "opening"
    /\ live' = live \cup {FreshConn}
    /\ held' = [held EXCEPT ![t] = FreshConn]
    /\ pc' = [pc EXCEPT ![t] = "holding"]
    /\ lock_owner' = NoTask
    /\ origin' = [origin EXCEPT ![t] = "new"]
    /\ UNCHANGED <<queue, getters, woken, current_size, lock_waiters, closer_pc, closer_conn, closer_count, called>>

\* the opening raises and the counter keeps its increment
OpenFailNoRestore(t) ==
    /\ pc[t] = "opening"
    /\ current_size' = current_size
    /\ pc' = [pc EXCEPT ![t] = "failed"]
    /\ lock_owner' = NoTask
    /\ UNCHANGED <<queue, getters, woken, lock_waiters, live, held, closer_pc, closer_conn, closer_count,
                   called, origin>>

\* Pool.acquire, lines 149-152: opening raises; the counter is restored, the
\* lock released and the exception propagates
OpenFail(t) ==
    /\ pc[t] = "opening"
    /\ current_size' = current_size - 1
    /\ pc' = [pc EXCEPT ![t] = "failed"]
    /\ lock_owner' = NoTask
    /\ UNCHANGED <<queue, getters, woken, lock_waiters, live, held, closer_pc, closer_conn, closer_count,
                   called, origin>>

(***************************************************************************)
(* Pool.acquire, line 157, asyncio.Queue.get(): while the queue is empty   *)
(* the caller appends a getter future and suspends; otherwise it takes the *)
(* oldest idle connection.  The same loop runs again when a put has        *)
(* resolved the task's getter.                                             *)
(***************************************************************************)
QueueGet(t) ==
    /\ \/ pc[t] = "getting"
       \/ pc[t] = "waiting" /\ t \in woken
    /\ woken' = woken \ {t}
    /\ IF queue = <<>>
          THEN /\ getters' = Append(getters, t)
               /\ pc' = [pc EXCEPT ![t] = "waiting"]
               /\ UNCHANGED <<queue, held, origin>>
          ELSE /\ held' = [held EXCEPT ![t] = Head(queue)]
               /\ queue' = Tail(queue)
               /\ pc' = [pc EXCEPT ![t] = "holding"]
               /\ origin' = [origin EXCEPT ![t] = "idle"]
               /\ UNCHANGED getters
    /\ UNCHANGED <<current_size, lock_owner, lock_waiters, live, closer_pc, closer_conn, closer_count, called>>

(***************************************************************************)
(* Pool.acquire, lines 160-162: wait_for times out and acquire raises      *)
(* TimeoutError.  Queue.get() is cancelled: its getter is withdrawn, and   *)
(* when the getter had already been resolved by a put while the queue      *)
(* still holds an item, the next getter is woken in its place.             *)
(***************************************************************************)
\* queue.get() awaited without wait_for: the wait never times out
WaitWithoutTimeout(t) ==
    /\ pc[t] \in {"getting", "waiting"}
    /\ FALSE
    /\ UNCHANGED vars

Timeout(t) ==
    /\ pc[t] \in {"getting", "waiting"}
    /\ pc' = [pc EXCEPT ![t] = "timedout"]
    /\ IF t \in woken /\ queue # <<>> /\ Without(getters, t) # <<>>
          THEN /\ woken' = (woken \ {t}) \cup {Head(Without(getters, t))}
               /\ getters' = Tail(Without(getters, t))
          ELSE /\ woken' = woken \ {t}
               /\ getters' = Without(getters, t)
    /\ UNCHANGED <<queue, current_size, lock_owner, lock_waiters, live, held,
                   closer_pc, closer_conn, closer_count, called, origin>>

(***************************************************************************)
(* Pool.release, lines 171-180 (called by Connection.done, which then      *)
(* clears _connection).  A full queue sends the caller to close the        *)
(* connection; otherwise put_nowait appends it and wakes the oldest getter.*)
\* release() that gives the slot up although the connection stays in the pool
ReleaseStartGivesUpSlot(t) ==
    /\ pc[t] = "holding"
    /\ IF Len(queue) >= MaxSize
          THEN /\ pc' = [pc EXCEPT ![t] = "rel_closing"]
               /\ UNCHANGED <<queue, getters, woken, held, current_size>>
          ELSE /\ queue' = Append(queue, held[t])
               /\ current_size' = current_size - 1
               /\ held' = [held EXCEPT ![t] = NoConn]
               /\ pc' = [pc EXCEPT ![t] = "idle"]
               /\ IF getters # <<>>
                     THEN /\ woken' = woken \cup {Head(getters)}
                          /\ getters' = Tail(getters)
                     ELSE UNCHANGED <<getters, woken>>
    /\ origin' = [origin EXCEPT ![t] = "none"]
    /\ UNCHANGED <<lock_owner, lock_waiters, live, closer_pc, closer_conn, closer_count,
                   called>>

(***************************************************************************)
ReleaseStart(t) ==
    /\ pc[t] = "holding"
    /\ IF Len(queue) >= MaxSize
          THEN /\ pc' = [pc EXCEPT ![t] = "rel_closing"]
               /\ UNCHANGED <<queue, getters, woken, held>>
          ELSE /\ queue' = Append(queue, held[t])
               /\ held' = [held EXCEPT ![t] = NoConn]
               /\ pc' = [pc EXCEPT ![t] = "idle"]
               /\ IF getters # <<>>
                     THEN /\ woken' = woken \cup {Head(getters)}
                          /\ getters' = Tail(getters)
                     ELSE UNCHANGED <<getters, woken>>
    /\ origin' = [origin EXCEPT ![t] = "none"]
    /\ UNCHANGED <<current_size, lock_owner, lock_waiters, live, closer_pc, closer_conn, closer_count,
                   called>>

\* Pool.release, lines 174-176: __aexit__ returned (the overflow connection is
\* closed); take the lock to decrement the counter, at once if the lock is free
ReleaseClosed(t) ==
    /\ pc[t] = "rel_closing"
    /\ live' = live \ {held[t]}
    /\ IF LockFree
          THEN /\ current_size' = current_size - 1
               /\ held' = [held EXCEPT ![t] = NoConn]
               /\ pc' = [pc EXCEPT ![t] = "idle"]
               /\ UNCHANGED lock_waiters
          ELSE /\ lock_waiters' = Append(lock_waiters, t)
               /\ pc' = [pc EXCEPT ![t] = "rel_lockwait"]
               /\ UNCHANGED <<current_size, held>>
    /\ UNCHANGED <<queue, getters, woken, lock_owner, closer_pc, closer_conn, closer_count, called, origin>>

\* Pool.release, lines 175-177: the lock is handed to t, which decrements the counter
ReleaseLocked(t) ==
    /\ pc[t] = "rel_lockwait"
    /\ LockGranted(t)
    /\ lock_waiters' = Tail(lock_waiters)
    /\ current_size' = current_size - 1
    /\ held' = [held EXCEPT ![t] = NoConn]
    /\ pc' = [pc EXCEPT ![t] = "idle"]
    /\ UNCHANGED <<queue, getters, woken, lock_owner, live, closer_pc, closer_conn, closer_count,
                   called, origin>>

(***************************************************************************)
(* Pool.close, lines 184-193: while the queue is not empty take an idle    *)
(* connection and await its __aexit__; when the queue is empty set the     *)
(* counter to 0.  CloseLoop is the loop test and what follows it up to the *)
(* next suspension, with the value of `count` on entry.                    *)
(***************************************************************************)
\* the loop test skipped after the first connection: what is released while
\* close() runs stays in the queue
CloseLoopOnce(closed) ==
    IF queue = <<>> \/ closer_pc = "closing"
       THEN /\ current_size' = 0
            /\ closer_pc' = "idle"
            /\ closer_conn' = NoConn
            /\ closer_count' = closed
            /\ UNCHANGED queue
       ELSE /\ closer_conn' = Head(queue)
            /\ queue' = Tail(queue)
            /\ closer_pc' = "closing"
            /\ closer_count' = closed
            /\ UNCHANGED current_size

CloseLoop(closed) ==
    IF queue = <<>>
       THEN /\ current_size' = 0
            /\ closer_pc' = "idle"
            /\ closer_conn' = NoConn
            /\ closer_count' = closed
            /\ UNCHANGED queue
       ELSE /\ closer_conn' = Head(queue)
            /\ queue' = Tail(queue)
            /\ closer_pc' = "closing"
            /\ closer_count' = closed
            /\ UNCHANGED current_size

\* Pool.close, line 184: count = 0, then the loop
CloseStart ==
    /\ closer_pc = "idle"
    /\ CloseLoop(0)
    /\ UNCHANGED <<getters, woken, lock_owner, lock_waiters, live, pc, held, called, origin>>

\* count += 1, counted up to MaxCount
Counted(closed) == IF closed < MaxCount THEN closed + 1 ELSE closed

\* Pool.close, lines 188-191: __aexit__ returned and the connection is
\* counted, or it raised, which is swallowed before the count
CloseStep ==
    /\ closer_pc = "closing"
    /\ live' = live \ {closer_conn}
    /\ \E returned \in BOOLEAN : CloseLoop(IF returned THEN Counted(closer_count) ELSE closer_count)
    /\ UNCHANGED <<getters, woken, lock_owner, lock_waiters, pc, held, called, origin>>

PoolFrame == UNCHANGED <<queryVars, execVars, compileVars, sessionVars, runVars>>

NextPool ==
    \/ \E t \in Tasks : AcquireStart(t) /\ PoolFrame
    \/ \E t \in Tasks : AcquireLocked(t) /\ PoolFrame
    \/ \E t \in Tasks : OpenDone(t) /\ PoolFrame
    \/ \E t \in Tasks : OpenFail(t) /\ PoolFrame
    \/ \E t \in Tasks : QueueGet(t) /\ PoolFrame
    \/ \E t \in Tasks : Timeout(t) /\ PoolFrame
    \/ \E t \in Tasks : ReleaseStart(t) /\ PoolFrame
    \/ \E t \in Tasks : ReleaseClosed(t) /\ PoolFrame
    \/ \E t \in Tasks : ReleaseLocked(t) /\ PoolFrame
    \/ CloseStart /\ PoolFrame
    \/ CloseStep /\ PoolFrame

(***************************************************************************)
(* core/state.py, core/query.py, core/compiler.py: the Query facade.       *)
(*                                                                         *)
(* A Query object is a record; objs maps identities to records, so that    *)
(* "returns the same object" and "returns a clone" are different results.  *)
(* _clone deep-copies the state, so records (values) model the copies.     *)
(* Of QueryState, the fields the modelled calls read or write are kept.    *)
(***************************************************************************)
\* marker for a call that raised instead of returning an object
Raised == 0

Quote(x) == "\"" \o x \o "\""

\* QueryState.insert_values: written by Query.VALUES and read by
\* SQLCompiler._compile_insert; its declaration is not in core/state.py
InsertValuesDefault == <<>>

\* QueryState.window_definitions: written by Query.WINDOW and read by
\* SQLCompiler._compile_select; its declaration is not in core/state.py.
\* A dict, kept as the sequence of its (name, spec) items in insertion order.
WindowDefinitionsDefault == <<>>

(***************************************************************************)
(* Python values.  A value is a record whose `kind` is its type, so that   *)
(* isinstance and hasattr tests are tests on `kind`.                       *)
(***************************************************************************)
\* a str, as the parts a split at "." gives: "t.a" is Str(<<"t", "a">>)
Str(parts) == [kind |-> "str", parts |-> parts]

\* an int, by its decimal text
IntVal(text) == [kind |-> "int", val |-> text]

None == [kind |-> "None"]

\* a list or a tuple
Tuple(items) == [kind |-> "tuple", items |-> items]

\* Table(name, schema=None, alias=None), table.py lines 179-182; the schema is left out
Table(name, alias) == [kind |-> "Table", name |-> name, alias |-> alias]

\* Table.__tn__ without a schema: the quoted name
tn(table) == Quote(table.name)

\* Table.__str__ without a schema
TableStr(table) ==
    IF table.alias # "None" THEN Quote(table.name) \o " AS " \o Quote(table.alias)
    ELSE Quote(table.name)

\* Field(name, table): table is a Table, or None without a table
Field(name, table) == [kind |-> "Field", name |-> name, table |-> table]

\* Field.__str__
FieldStr(f) ==
    IF f.table.kind # "None"
       THEN Quote(IF f.table.alias # "None" THEN f.table.alias ELSE f.table.name)
            \o "." \o Quote(f.name)
       ELSE Quote(f.name)

\* Condition(left, operator, right), table.py lines 3-6
Condition(left, operator, right) ==
    [kind |-> "Condition", left |-> left, operator |-> operator, right |-> right]

\* BooleanCondition(left, operator, right), table.py lines 35-38
BooleanCondition(left, operator, right) ==
    [kind |-> "BooleanCondition", left |-> left, operator |-> operator, right |-> right]

\* InCondition(left, operator, right): a Condition with its own compile
InCondition(left, operator, right) ==
    [kind |-> "InCondition", left |-> left, operator |-> operator, right |-> right]

\* BetweenCondition(field, lower, upper), table.py lines 80-83
BetweenCondition(field, lower, upper) ==
    [kind |-> "BetweenCondition", field |-> field, lower |-> lower, upper |-> upper]

\* Field.__eq__ and Field.__ne__
FieldEq(f, other) == Condition(f, "=", other)

FieldNe(f, other) == Condition(f, "<>", other)

\* Field.IN and Field.NOT_IN
FieldIN(f, other) == InCondition(f, "IN", other)

FieldNOT_IN(f, other) == InCondition(f, "NOT IN", other)

\* Function(name, *args), functions.py lines 9-12
Function(name, args) == [kind |-> "Function", name |-> name, args |-> args, alias |-> "None"]

\* JsonObject(*args), functions.py lines 58-60
JsonObject(args) == [kind |-> "JsonObject", name |-> "json_object", args |-> args, alias |-> "None"]

\* WindowSpec(partition_by=...), window.py
WindowSpec(partition_by) ==
    [kind |-> "WindowSpec", partition_by |-> partition_by, order_by |-> <<>>, frame |-> "None"]

\* WindowFunction(name, *args, over=None), window.py lines 116-130
WindowFunction(name, args) ==
    [kind |-> "WindowFunction", name |-> name, args |-> args, over |-> None,
     alias |-> "None", filter |-> None, distinct |-> FALSE]

\* WindowFunction.FILTER
FILTER(w, condition) == [w EXCEPT !.filter = condition]

\* WindowFunction.DISTINCT
DISTINCT(w) == [w EXCEPT !.distinct = TRUE]

\* WindowFunction.AS
AS(w, alias) == [w EXCEPT !.alias = alias]

\* WindowFunction.OVER
OVER(w, spec) == [w EXCEPT !.over = IF spec.kind # "None" THEN spec ELSE WindowSpec(<<>>)]

\* hasattr(x, 'compile')
HasCompile(x) ==
    x.kind \in {"Condition", "BooleanCondition", "InCondition", "BetweenCondition",
                "Function", "JsonObject", "WindowFunction", "WindowSpec"}

\* the dialects: PostgresCompiler, MySQLCompiler, SQLiteCompiler
Dialects == {"postgres", "mysql", "sqlite"}

\* the engine of the modelled Query objects
EngineArg == "postgres"

\* SQLCompiler.__init__
NewCompiler(dialect) == [dialect |-> dialect, placeholder_count |-> 0]

\* QueryState(): the dataclass defaults
NewQueryState ==
    [ ctes |-> <<>>,
      chain |-> <<>>,
      selects |-> <<>>,
      from_sources |-> <<>>,
      joins |-> <<>>,
      wheres |-> <<>>,
      groups |-> <<>>,
      orders |-> <<>>,
      limit |-> None,
      offset |-> None,
      statement_type |-> "SELECT",
      insert_table |-> "None",
      insert_columns |-> <<>>,
      update_table |-> "None",
      delete_table |-> "None",
      values |-> <<>>,
      updates |-> <<>>,
      returning |-> <<>>,
      insert_values |-> InsertValuesDefault,
      window_definitions |-> WindowDefinitionsDefault ]

\* Query.__init__: what the builder calls and build() read or write
NewQuery ==
    [ kind |-> "Query",
      state |-> NewQueryState,
      compiler |-> NewCompiler(EngineArg),
      args |-> <<>>,
      tablenames |-> {},
      callstack |-> <<>>,
      from_ |-> <<>>,
      pause |-> FALSE ]

\* inputs of the builder calls
SelectArgs == {Str(<<"t", "a">>), Str(<<"b">>)}
TableArg == "t"
ColumnArg == "a"
RowArg == <<IntVal("1")>>
SetArg == Str(<<"a = 1">>)
WhereArg == Str(<<"x = 1">>)
CteAlias == "c"
CteQuery == Str(<<"SELECT 1">>)

\* the text of a str
ColumnText(parts) == IF Len(parts) = 1 THEN parts[1] ELSE parts[1] \o "." \o parts[2]

\* Query.get_tablename for a string: the part before the last, if any
get_tablename(parts) == IF Len(parts) >= 2 THEN parts[Len(parts) - 1] ELSE "None"

\* Query._chain_state, line 295
is_dirty(s) ==
    \/ s.statement_type # "SELECT"
    \/ Len(s.selects) > 0
    \/ Len(s.from_sources) > 0

\* a _chain_state that archives the live state whether it is dirty or not
ChainStateAlways(q) ==
    [q EXCEPT !.state = [NewQueryState EXCEPT !.chain = Append(q.state.chain, q.state)]]

\* Query._chain_state
ChainState(q) ==
    IF is_dirty(q.state)
       THEN [q EXCEPT !.state = [NewQueryState EXCEPT !.chain = Append(q.state.chain, q.state)]]
       ELSE q

\* a _clone that copies whatever the flag says
CloneAlways(q) == FALSE

\* Query._clone, lines 277-286: the receiver itself is returned when its
\* pause flag is set, a copy otherwise
ReturnsSelf(q) == q.pause

\* Query.BEGIN, after _clone
DoBEGIN(this) ==
    LET a == [this EXCEPT !.pause = TRUE, !.callstack = Append(@, "BEGIN")]
        b == ChainState(a)
    IN  [b EXCEPT !.state.statement_type = "BEGIN"]

\* Query.COMMIT
DoCOMMIT(self) ==
    LET a == [self EXCEPT !.pause = FALSE, !.callstack = Append(@, "COMMIT")]
        b == ChainState(a)
    IN  [b EXCEPT !.state.statement_type = "COMMIT"]

\* an argument that is neither a str nor a Table (nor a Query): an int here
Unsupported(x) == x.kind = "int"

\* Query.DELETE_FROM with an argument of an unsupported type, after _clone,
\* up to the raise of ArgumentError: what the call has written to this
DoDELETE_FROMUnsupported(this) ==
    LET a == [this EXCEPT !.callstack = Append(@, "DELETE")]
        b == ChainState(a)
    IN  [b EXCEPT !.state.statement_type = "DELETE"]

\* Query.DELETE_FROM with a table name, after _clone
DoDELETE_FROM(this, table) ==
    LET a == [this EXCEPT !.callstack = Append(@, "DELETE")]
        b == ChainState(a)
    IN  [b EXCEPT !.state.statement_type = "DELETE",
                  !.state.from_sources = Append(@, Quote(table))]

\* Query.FROM with table names (a sequence); no argument raises ArgumentError
\* before anything is written, a source of an unsupported type raises it
\* inside the loop, after the call stack was written
DoFROM(self, tables) ==
    IF tables = <<>>
       THEN [ok |-> FALSE, q |-> self]
    ELSE IF \E i \in 1..Len(tables) : Unsupported(tables[i])
       THEN [ok |-> FALSE, q |-> [self EXCEPT !.callstack = Append(@, " FROM ")]]
       ELSE LET froms_to_add == [i \in 1..Len(tables) |->
                                    IF tables[i].kind = "str" THEN Quote(ColumnText(tables[i].parts))
                                    ELSE TableStr(tables[i])]
            IN  [ok |-> TRUE,
                 q |-> [self EXCEPT !.callstack = Append(@, " FROM "),
                                    !.state.from_sources = @ \o froms_to_add,
                                    !.from_ = @ \o froms_to_add]]

\* Query.INSERT_INTO with a table name and a tuple of column names, after _clone
DoINSERT_INTO(this, table, cols) ==
    LET a == [this EXCEPT !.callstack = Append(@, "INSERT INTO "), !.pause = TRUE]
        b == ChainState(a)
    IN  [b EXCEPT !.state.statement_type = "INSERT",
                  !.state.insert_table = Quote(table),
                  !.state.insert_columns = [i \in 1..Len(cols) |-> Quote(cols[i])]]

\* a SELECT that archives a live INSERT as it archives an UPDATE
DoSELECTArchivesInsert(this, arg) ==
    LET a == [this EXCEPT !.callstack = Append(@, "SELECT")]
        b == IF a.state.statement_type \in {"UPDATE", "DELETE", "BEGIN", "COMMIT", "INSERT"}
                THEN [ChainState(a) EXCEPT !.state.statement_type = "SELECT"]
                ELSE [a EXCEPT !.state.statement_type = "SELECT"]
        c == CASE arg.kind = "str" /\ get_tablename(arg.parts) # "None" ->
                     [b EXCEPT !.tablenames = @ \cup {get_tablename(arg.parts)}]
               [] arg.kind = "Table" -> [b EXCEPT !.tablenames = @ \cup {tn(arg)}]
               [] arg.kind = "Field" /\ arg.table.kind # "None" ->
                     [b EXCEPT !.tablenames = @ \cup {tn(arg.table)}]
               [] OTHER -> b
    IN  [c EXCEPT !.state.selects =
                     CASE arg.kind = "Table" -> <<Str(<<"*">>)>>
                       [] arg.kind = "Field" -> <<Str(<<FieldStr(arg)>>)>>
                       [] OTHER -> <<arg>>]

\* Query.SELECT with one argument, a column string, a Table, a Field or a
\* compilable object, after _clone
DoSELECT(this, arg) ==
    LET a == [this EXCEPT !.callstack = Append(@, "SELECT")]
        b == IF a.state.statement_type \in {"UPDATE", "DELETE", "BEGIN", "COMMIT"}
                THEN [ChainState(a) EXCEPT !.state.statement_type = "SELECT"]
                ELSE IF a.state.statement_type # "INSERT"
                        THEN [a EXCEPT !.state.statement_type = "SELECT"]
                        ELSE a
        c == CASE arg.kind = "str" /\ get_tablename(arg.parts) # "None" ->
                     [b EXCEPT !.tablenames = @ \cup {get_tablename(arg.parts)}]
               [] arg.kind = "Table" -> [b EXCEPT !.tablenames = @ \cup {tn(arg)}]
               [] arg.kind = "Field" /\ arg.table.kind # "None" ->
                     [b EXCEPT !.tablenames = @ \cup {tn(arg.table)}]
               [] OTHER -> b
    IN  [c EXCEPT !.state.selects =
                     CASE arg.kind = "Table" -> <<Str(<<"*">>)>>
                       [] arg.kind = "Field" -> <<Str(<<FieldStr(arg)>>)>>
                       [] OTHER -> <<arg>>]

\* Query.SET with one argument, a string or a compilable object
DoSET(self, ax) ==
    [self EXCEPT !.callstack = Append(@, "SET"), !.state.updates = Append(@, ax)]

\* Query.UPDATE with a table name, after _clone
DoUPDATE(this, table) ==
    LET b == ChainState(this)
    IN  [b EXCEPT !.state.statement_type = "UPDATE",
                  !.callstack = Append(@, "UPDATE "),
                  !.state.update_table = table]
\* a VALUES that takes its arguments for one row whatever their shape
VALUESAlwaysOneRow(self, args) ==
    [self EXCEPT !.callstack = Append(@, "VALUES "),
                 !.state.insert_values = Append(@, args)]


\* Query.VALUES(*args): args is the sequence of the positional arguments.
\* A row is kept as the sequence of its values.
DoVALUES(self, args) ==
    LET a == [self EXCEPT !.callstack = Append(@, "VALUES ")]
        Rows(xs) == [i \in 1..Len(xs) |-> xs[i].items]
    IN  IF Len(args) = 1 /\ args[1].kind = "tuple"
           THEN LET elem == args[1].items
                IN  IF elem # <<>> /\ elem[1].kind = "tuple"
                       THEN [a EXCEPT !.state.insert_values = @ \o Rows(elem)]
                       ELSE [a EXCEPT !.state.insert_values = Append(@, elem)]
           ELSE IF args # <<>> /\ args[1].kind = "tuple"
                   THEN [a EXCEPT !.state.insert_values = @ \o Rows(args)]
                   ELSE [a EXCEPT !.state.insert_values = Append(@, args)]
\* the orders in which a set can be iterated: a set of str has no fixed
\* iteration order
Orderings(S) ==
    {names \in [1..Cardinality(S) -> S] :
        \A i, j \in 1..Cardinality(S) : i # j => names[i] # names[j]}

\* Query.WHERE with a string or a condition object: FROM is called with the registered
\* table names unless UPDATE, FROM or DELETE is on the call stack; names is the
\* order in which self._tablenames is iterated
DoWHERE(self, condition, names) ==
    LET cs == Range(self.callstack)
        f == IF "UPDATE " \in cs THEN [ok |-> TRUE, q |-> self]
             ELSE IF " FROM " \notin cs /\ "DELETE" \notin cs
                     THEN DoFROM(self, [i \in 1..Len(names) |-> Str(<<names[i]>>)])
                     ELSE [ok |-> TRUE, q |-> self]
    IN  IF f.ok
           THEN [ok |-> TRUE,
                 q |-> [f.q EXCEPT !.callstack = Append(@, "WHERE"),
                                   !.state.wheres = Append(@, condition)]]
           ELSE f

\* Query.WITH with a SQL string or a Query object, after _clone
DoWITH(this, alias, query) ==
    [this EXCEPT !.state.ctes = Append(@, <<alias, query>>)]

\* a method that puts itself on the call stack before it raises
RaiseAfterCallstack(self) ==
    [ok |-> FALSE, q |-> [self EXCEPT !.callstack = Append(@, "UNION")]]

\* Query.UNION, Query.UPSERT and Query.WITHOUT: raise NotImplementedError is
\* the whole body
RaiseNotImplemented(self) == [ok |-> FALSE, q |-> self]

\* Query.JOIN with a table of an unsupported type, up to the raise of
\* ArgumentError: what the call has written to self
DoJOINUnsupported(self) == [self EXCEPT !.callstack = Append(@, "JOIN")]

\* Query.JOIN with a table name and an ON string ("None": no ON)
DoJOIN(self, table, on, join_type) ==
    LET join_sql == join_type \o " JOIN " \o Quote(table)
                    \o (IF on # "None" THEN " ON " \o on ELSE "")
    IN  [self EXCEPT !.callstack = Append(@, "JOIN"),
                     !.state.joins = Append(@, join_sql)]

\* Query.GROUP_BY with column strings
DoGROUP_BY(self, cols) ==
    [self EXCEPT !.callstack = Append(@, "GROUP_BY"),
                 !.state.groups = @ \o cols]

\* Query.ORDER_BY with column strings without a "-" prefix
DoORDER_BY(self, cols) ==
    [self EXCEPT !.callstack = Append(@, "ORDER_BY"),
                 !.state.orders = @ \o [i \in 1..Len(cols) |-> cols[i] \o " ASC"]]

\* Query.LIMIT
DoLIMIT(self, count, offset) ==
    [self EXCEPT !.callstack = Append(@, "LIMIT"),
                 !.state.limit = count,
                 !.state.offset = IF offset.kind # "None" THEN offset ELSE @]

\* Query.RETURNING with column strings
DoRETURNING(self, cols) ==
    [self EXCEPT !.callstack = Append(@, "RETURNING"),
                 !.state.returning = IF cols # <<>> THEN cols ELSE <<"*">>]

\* Query.WINDOW: window_definitions[name] = spec
DoWINDOW(self, name, spec) ==
    LET defs == self.state.window_definitions
        at == {i \in 1..Len(defs) : defs[i][1] = name}
    IN  [self EXCEPT !.state.window_definitions =
            IF at = {} THEN Append(defs, <<name, spec>>)
            ELSE [i \in 1..Len(defs) |-> IF i \in at THEN <<name, spec>> ELSE defs[i]]]

(***************************************************************************)
(* core/compiler.py, core/table.py, core/functions.py, core/window.py.     *)
(* SQL text is a sequence of tokens; the separators the code joins with    *)
(* (", ", " AND ", "; ") are tokens too.  A compiler is the record of its  *)
(* dialect and its _placeholder_count; every compile operator returns the  *)
(* SQL, the parameters and the compiler as the call leaves it.  A local    *)
(* variable of the code that holds such a result is the parameter of the   *)
(* operator that models the code after the assignment.                     *)
(***************************************************************************)
RECURSIVE JoinTokens(_, _)
\* sep.join(parts), each part a token sequence
JoinTokens(parts, sep) ==
    IF Len(parts) = 0 THEN <<>>
    ELSE IF Len(parts) = 1 THEN parts[1]
    ELSE parts[1] \o <<sep>> \o JoinTokens(Tail(parts), sep)

Singletons(s) == [i \in 1..Len(s) |-> <<s[i]>>]
\* str(x) of a str, an int, None or a Field
Text(x) ==
    CASE x.kind = "str" -> ColumnText(x.parts)
      [] x.kind = "int" -> x.val
      [] x.kind = "None" -> "None"
      [] x.kind = "Field" -> FieldStr(x)

\* str.replace("'", "''"): of the strings the model passes, "o'k" holds a quote
DoubleQuotes(text) == IF text = "o'k" THEN "o''k" ELSE text

\* str.replace("\\", "\\\\"): of the strings the model passes, "a\b" holds a backslash
DoubleBackslashes(text) == IF text = "a\\b" THEN "a\\\\b" ELSE text

\* PostgresCompiler.parameter_placeholder: the k-th placeholder of a compile
Placeholder(k) == "$" \o ToString(k)

\* SQLCompiler.reset
reset(self) == [self EXCEPT !.placeholder_count = 0]

\* SQLCompiler.next_placeholder over the three parameter_placeholder properties
next_placeholder(self) ==
    CASE self.dialect = "postgres" ->
            [text |-> Placeholder(self.placeholder_count + 1),
             self |-> [self EXCEPT !.placeholder_count = @ + 1]]
      [] self.dialect = "mysql" -> [text |-> "%s", self |-> self]
      [] self.dialect = "sqlite" -> [text |-> "?", self |-> self]

\* a compiled part without SQL
NoSql(self) == [sql |-> <<>>, params |-> <<>>, self |-> self]

\* a part rendered by str(): no parameters, the compiler untouched
Literal(self, tokens) == [sql |-> tokens, params |-> <<>>, self |-> self]

\* the start of a loop that collects compiled parts
NoParts(self) == [parts |-> <<>>, params |-> <<>>, self |-> self]

\* sql_parts.append(sql); params.extend(p), the rest of the loop done after it
Cons(one, rest) ==
    [parts |-> <<one.sql>> \o rest.parts,
     params |-> one.params \o rest.params,
     self |-> rest.self]

PlaceholdersJoin(p, rest) == [texts |-> <<p.text>> \o rest.texts, self |-> rest.self]

RECURSIVE Placeholders(_, _)

PlaceholdersNext(p, n) == PlaceholdersJoin(p, Placeholders(p.self, n - 1))

\* n calls of next_placeholder in a row
Placeholders(self, n) ==
    IF n = 0 THEN [texts |-> <<>>, self |-> self]
    ELSE PlaceholdersNext(next_placeholder(self), n)

\* Condition.compile, after placeholder = compiler.next_placeholder()
Condition_sql(p, node) ==
    [sql |-> <<FieldStr(node.left), node.operator, p.text>>,
     params |-> <<node.right>>,
     self |-> p.self]

\* InCondition.compile, the list branch after its loop
In_list_sql(ps, node) ==
    [sql |-> <<FieldStr(node.left), node.operator, "(">>
             \o JoinTokens(Singletons(ps.texts), ",") \o <<")">>,
     params |-> node.right.items,
     self |-> ps.self]

\* InCondition.compile, the other branch after p = compiler.next_placeholder()
In_one_sql(p, node) ==
    [sql |-> <<FieldStr(node.left), node.operator, "(", p.text, ")">>,
     params |-> <<node.right>>,
     self |-> p.self]

\* an IN list that issues a placeholder for every value but the last
InConditionSkipsLast(self, node) ==
    IF node.right.kind = "tuple"
       THEN In_list_sql(Placeholders(self, IF Len(node.right.items) > 1
                                              THEN Len(node.right.items) - 1
                                              ELSE Len(node.right.items)), node)
       ELSE In_one_sql(next_placeholder(self), node)

\* InCondition.compile
InCondition_compile(self, node) ==
    IF node.right.kind = "tuple"
       THEN In_list_sql(Placeholders(self, Len(node.right.items)), node)
       ELSE In_one_sql(next_placeholder(self), node)

\* BetweenCondition.compile, after p1 and p2
Between_sql(p1, p2, node) ==
    [sql |-> <<FieldStr(node.field), "BETWEEN", p1.text, "AND", p2.text>>,
     params |-> <<node.lower, node.upper>>,
     self |-> p2.self]

\* BetweenCondition.compile, after p1
Between_second(p1, node) == Between_sql(p1, next_placeholder(p1.self), node)

\* BooleanCondition.compile, the returned pair
Boolean_sql(l, r, operator) ==
    [sql |-> <<"(">> \o l.sql \o <<")", operator, "(">> \o r.sql \o <<")">>,
     params |-> l.params \o r.params,
     self |-> r.self]

\* WindowSpec.compile
WindowSpec_compile(self, spec) ==
    [sql |-> (IF spec.partition_by # <<>>
                 THEN <<"PARTITION BY">> \o JoinTokens(Singletons(spec.partition_by), ",")
                 ELSE <<>>)
             \o (IF spec.order_by # <<>>
                    THEN <<"ORDER BY">>
                         \o JoinTokens([i \in 1..Len(spec.order_by) |->
                                           <<spec.order_by[i][1], spec.order_by[i][2]>>], ",")
                    ELSE <<>>)
             \o (IF spec.frame # "None" THEN <<spec.frame>> ELSE <<>>),
     params |-> <<>>,
     self |-> self]

\* Function.compile, a string argument: inlined as a quoted literal
Function_str_arg(self, arg) ==
    Literal(self, <<"'" \o (IF self.dialect = "mysql"
                               THEN DoubleBackslashes(DoubleQuotes(Text(arg)))
                               ELSE DoubleQuotes(Text(arg))) \o "'">>)

\* Function.compile, any other value: a placeholder and a parameter
Function_value_arg(p, arg) == [sql |-> <<p.text>>, params |-> <<arg>>, self |-> p.self]

\* Function.compile, after its loop
Function_sql(as, name, alias) ==
    [sql |-> <<name, "(">> \o JoinTokens(as.parts, ",") \o <<")">>
             \o (IF alias # "None" THEN <<"AS", alias>> ELSE <<>>),
     params |-> as.params,
     self |-> as.self]
\* a JsonObject with a name of its own under MySQL
JsonObjectNamePerDialect(self) ==
    CASE self.dialect = "postgres" -> "json_build_object"
      [] self.dialect = "mysql" -> "JSON_OBJECT"
      [] OTHER -> "json_object"


\* the name JsonObject.compile gives the node
JsonObjectName(self) == IF self.dialect = "postgres" THEN "json_build_object" ELSE "json_object"

\* WindowFunction.compile, the FILTER clause of a compiled condition
Filter_sql(c) ==
    [sql |-> <<"FILTER", "(", "WHERE">> \o c.sql \o <<")">>, params |-> c.params, self |-> c.self]

\* WindowFunction.compile, the OVER clause of an inline WindowSpec
Over_sql(w) == [sql |-> <<"OVER", "(">> \o w.sql \o <<")">>, params |-> w.params, self |-> w.self]

\* WindowFunction.compile, the OVER clause
OverPart(self, over) ==
    IF over.kind = "None" THEN NoSql(self)
    ELSE IF over.kind = "str" THEN Literal(self, <<"OVER", Text(over)>>)
    ELSE Over_sql(WindowSpec_compile(self, over))

\* WindowFunction.compile, the returned pair: the call, the OVER clause, the
\* FILTER clause, the alias; the parameters in the order they were collected
WindowFunction_sql(as, f, over, node) ==
    [sql |-> <<node.name, "(">>
             \o (IF node.args # <<>> /\ node.distinct THEN <<"DISTINCT">> ELSE <<>>)
             \o JoinTokens(as.parts, ",") \o <<")">>
             \o over.sql \o f.sql
             \o (IF node.alias # "None" THEN <<"AS", node.alias>> ELSE <<>>),
     params |-> as.params \o f.params \o over.params,
     self |-> over.self]

WindowFunction_over(as, f, node) == WindowFunction_sql(as, f, OverPart(f.self, node.over), node)

RECURSIVE compile_node(_, _)
RECURSIVE Function_args(_, _)
RECURSIVE WindowFunction_args(_, _)

\* x.compile(compiler) if x has a compile method, else str(x)
Operand(self, x) == IF HasCompile(x) THEN compile_node(self, x) ELSE Literal(self, <<Text(x)>>)

\* BooleanCondition.compile, after the left side
Boolean_right(l, node) == Boolean_sql(l, Operand(l.self, node.right), node.operator)

Function_rest(one, args) == Cons(one, Function_args(one.self, Tail(args)))

\* the loop of Function.compile over self.args
Function_args(self, args) ==
    IF args = <<>> THEN NoParts(self)
    ELSE Function_rest(IF HasCompile(Head(args)) THEN compile_node(self, Head(args))
                       ELSE IF Head(args).kind = "Field" THEN Literal(self, <<Text(Head(args))>>)
                       ELSE IF Head(args).kind = "str" THEN Function_str_arg(self, Head(args))
                       ELSE Function_value_arg(next_placeholder(self), Head(args)),
                       args)

WindowFunction_rest(one, args) == Cons(one, WindowFunction_args(one.self, Tail(args)))

\* the loop of WindowFunction.compile over self.args
WindowFunction_args(self, args) ==
    IF args = <<>> THEN NoParts(self)
    ELSE WindowFunction_rest(IF HasCompile(Head(args)) THEN compile_node(self, Head(args))
                             ELSE IF Head(args).kind = "None" THEN Literal(self, <<"NULL">>)
                             ELSE Literal(self, <<Text(Head(args))>>),
                             args)

\* WindowFunction.compile, after the arguments: the FILTER clause
WindowFunction_filter(as, node) ==
    WindowFunction_over(as,
                        IF node.filter.kind = "None" THEN NoSql(as.self)
                        ELSE IF HasCompile(node.filter)
                                THEN Filter_sql(compile_node(as.self, node.filter))
                        ELSE Literal(as.self, <<"FILTER", "(", "WHERE", Text(node.filter), ")">>),
                        node)

\* node.compile(compiler) for the compilable nodes
compile_node(self, node) ==
    CASE node.kind = "Condition" -> Condition_sql(next_placeholder(self), node)
      [] node.kind = "BooleanCondition" -> Boolean_right(Operand(self, node.left), node)
      [] node.kind = "InCondition" -> InCondition_compile(self, node)
      [] node.kind = "BetweenCondition" -> Between_second(next_placeholder(self), node)
      [] node.kind = "Function" ->
            Function_sql(Function_args(self, node.args), node.name, node.alias)
      [] node.kind = "JsonObject" ->
            Function_sql(Function_args(self, node.args), JsonObjectName(self), node.alias)
      [] node.kind = "WindowSpec" -> WindowSpec_compile(self, node)
      [] node.kind = "WindowFunction" ->
            WindowFunction_filter(WindowFunction_args(self, node.args), node)

RECURSIVE ConditionParts(_, _)

\* a condition without text adds no part
ConditionCons(one, rest) == IF one.sql # <<>> THEN Cons(one, rest) ELSE rest

Condition_rest(one, conditions) ==
    ConditionCons(one, ConditionParts(one.self, Tail(conditions)))

\* the loop of SQLCompiler._compile_conditions
ConditionParts(self, conditions) ==
    IF conditions = <<>> THEN NoParts(self)
    ELSE Condition_rest(IF HasCompile(Head(conditions))
                           THEN compile_node(self, Head(conditions))
                        ELSE IF Text(Head(conditions)) # ""
                           THEN Literal(self, <<Text(Head(conditions))>>)
                        ELSE NoSql(self),
                        conditions)

\* " AND ".join(sql_parts), params
Conditions_sql(c) == [sql |-> JoinTokens(c.parts, "AND"), params |-> c.params, self |-> c.self]

\* SQLCompiler._compile_conditions
compile_conditions(self, conditions) == Conditions_sql(ConditionParts(self, conditions))

RECURSIVE ItemParts(_, _)

Item_rest(one, items) == Cons(one, ItemParts(one.self, Tail(items)))

\* the loops of _compile_select over the selects and over the window
\* definitions and of _compile_update over the updates: compile what has a
\* compile method, str() the rest
ItemParts(self, items) ==
    IF items = <<>> THEN NoParts(self)
    ELSE Item_rest(Operand(self, Head(items)), items)

\* if where_sql: parts.append(f"WHERE {where_sql}"); parameters.extend(where_params)
Where_sql(w) ==
    IF w.sql # <<>>
       THEN [sql |-> <<"WHERE">> \o w.sql, params |-> w.params, self |-> w.self]
       ELSE NoSql(w.self)

\* the WHERE part of _compile_select, _compile_update and _compile_delete
WherePart(self, state) ==
    IF state.wheres # <<>> THEN Where_sql(compile_conditions(self, state.wheres))
    ELSE NoSql(self)

\* the RETURNING part of the four statement compilers
ReturningPart(state) ==
    IF state.returning # <<>>
       THEN <<"RETURNING">> \o JoinTokens(Singletons(state.returning), ",")
       ELSE <<>>

\* SQLCompiler._compile_select, the parts in the order they are appended
Select_sql(sel, where, specs, state) ==
    [sql |-> <<"SELECT">> \o JoinTokens(sel.parts, ",")
             \o (IF state.from_sources # <<>>
                    THEN <<"FROM">> \o JoinTokens(Singletons(state.from_sources), ",")
                    ELSE <<>>)
             \o state.joins
             \o where.sql
             \o (IF state.groups # <<>>
                    THEN <<"GROUP BY">> \o JoinTokens(Singletons(state.groups), ",")
                    ELSE <<>>)
             \o (IF state.window_definitions # <<>>
                    THEN <<"WINDOW">>
                         \o JoinTokens([i \in 1..Len(state.window_definitions) |->
                                           <<state.window_definitions[i][1], "AS", "(">>
                                           \o specs.parts[i] \o <<")">>],
                                       ",")
                    ELSE <<>>)
             \o (IF state.orders # <<>>
                    THEN <<"ORDER BY">> \o JoinTokens(Singletons(state.orders), ",")
                    ELSE <<>>)
             \o (IF state.limit.kind # "None" THEN <<"LIMIT", Text(state.limit)>> ELSE <<>>)
             \o (IF state.offset.kind # "None" THEN <<"OFFSET", Text(state.offset)>> ELSE <<>>)
             \o ReturningPart(state),
     params |-> sel.params \o where.params \o specs.params,
     self |-> specs.self]

\* _compile_select, after the WHERE part: the named windows
Select_windows(sel, where, state) ==
    Select_sql(sel, where,
               ItemParts(where.self, [i \in 1..Len(state.window_definitions) |->
                                         state.window_definitions[i][2]]),
               state)

\* _compile_select, after the select list: the WHERE part
Select_where(sel, state) == Select_windows(sel, WherePart(sel.self, state), state)

\* SQLCompiler._compile_select
compile_select(self, state) ==
    Select_where(ItemParts(self, IF state.selects # <<>> THEN state.selects
                                 ELSE <<Str(<<"*">>)>>),
                 state)

Rows_cons(ps, rest) ==
    [parts |-> <<<<"(">> \o JoinTokens(Singletons(ps.texts), ",") \o <<")">>>> \o rest.parts,
     self |-> rest.self]

RECURSIVE RowsTokens(_, _)

Rows_rest(ps, rows) == Rows_cons(ps, RowsTokens(ps.self, Tail(rows)))

\* the loop of _compile_insert over the rows: one placeholder group per row
RowsTokens(self, rows) ==
    IF rows = <<>> THEN [parts |-> <<>>, self |-> self]
    ELSE Rows_rest(Placeholders(self, Len(Head(rows))), rows)

RECURSIVE Flatten(_)
\* the values of the rows, row by row
Flatten(rows) == IF rows = <<>> THEN <<>> ELSE Head(rows) \o Flatten(Tail(rows))

\* _compile_insert, the VALUES part after the loop over the rows
Rows_sql(groups, rows) ==
    [sql |-> <<"VALUES">> \o JoinTokens(groups.parts, ","),
     params |-> Flatten(rows),
     self |-> groups.self]

\* _compile_insert, the returned pair
Insert_sql(body, state) ==
    [sql |-> <<"INSERT INTO", state.insert_table>>
             \o (IF state.insert_columns # <<>>
                    THEN <<"(">> \o JoinTokens(Singletons(state.insert_columns), ",") \o <<")">>
                    ELSE <<>>)
             \o body.sql
             \o ReturningPart(state),
     params |-> body.params,
     self |-> body.self]

\* SQLCompiler._compile_insert: VALUES rows if any, else the literal values,
\* else the SELECT if any
compile_insert(self, state) ==
    Insert_sql(IF state.insert_values # <<>>
                  THEN Rows_sql(RowsTokens(self, state.insert_values), state.insert_values)
               ELSE IF state.values # <<>>
                  THEN Literal(self, <<"VALUES">> \o JoinTokens(Singletons(state.values), ","))
               ELSE IF state.selects # <<>> THEN compile_select(self, state)
               ELSE NoSql(self),
               state)

\* _compile_update, the returned pair
Update_sql(ups, where, state) ==
    [sql |-> <<"UPDATE", state.update_table>>
             \o (IF state.updates # <<>> THEN <<"SET">> \o JoinTokens(ups.parts, ",") ELSE <<>>)
             \o where.sql
             \o ReturningPart(state),
     params |-> ups.params \o where.params,
     self |-> where.self]

\* _compile_update, after the assignments: the WHERE part
Update_where(ups, state) == Update_sql(ups, WherePart(ups.self, state), state)

\* SQLCompiler._compile_update
compile_update(self, state) == Update_where(ItemParts(self, state.updates), state)

\* _compile_delete, the returned pair
Delete_sql(where, state) ==
    [sql |-> <<"DELETE FROM">>
             \o (IF state.from_sources # <<>> THEN <<state.from_sources[1]>>
                 ELSE IF state.delete_table # "None" THEN <<state.delete_table>>
                 ELSE <<>>)
             \o where.sql
             \o ReturningPart(state),
     params |-> where.params,
     self |-> where.self]

\* SQLCompiler._compile_delete
compile_delete(self, state) == Delete_sql(WherePart(self, state), state)

RECURSIVE compile(_, _)
RECURSIVE compile_single(_, _)
RECURSIVE CompileFrom(_, _)

\* Query.build (and Query.print, which returns what build returns)
build(q) == compile(q.compiler, q.state)

\* _compile_single, the returned pair: the WITH part and the main statement
Single_sql(with, main) == [sql |-> with \o main.sql, params |-> main.params, self |-> main.self]

\* SQLCompiler._compile_single.  A CTE that is a Query object is rendered by
\* its own print(), that is by its own compiler, and only the SQL is kept.
compile_single(self, state) ==
    IF state.statement_type = "BEGIN" THEN Literal(self, <<"BEGIN">>)
    ELSE IF state.statement_type = "COMMIT" THEN Literal(self, <<"COMMIT;">>)
    ELSE Single_sql(IF state.ctes # <<>>
                       THEN <<"WITH">>
                            \o JoinTokens([i \in 1..Len(state.ctes) |->
                                             <<state.ctes[i][1], "AS", "(">>
                                             \o (IF state.ctes[i][2].kind = "str"
                                                    THEN <<Text(state.ctes[i][2])>>
                                                    ELSE build(state.ctes[i][2]).sql)
                                             \o <<")">>],
                                          ",")
                       ELSE <<>>,
                    CASE state.statement_type = "SELECT" -> compile_select(self, state)
                      [] state.statement_type = "INSERT" -> compile_insert(self, state)
                      [] state.statement_type = "UPDATE" -> compile_update(self, state)
                      [] state.statement_type = "DELETE" -> compile_delete(self, state))

From_cons(first, rest) ==
    [sql |-> <<first.sql>> \o rest.sql,
     params |-> first.params \o rest.params,
     self |-> rest.self]

From_rest(first, states) == From_cons(first, CompileFrom(first.self, Tail(states)))

\* the loop of SQLCompiler.compile: the statements of a list of states, in
\* order, on one compiler
CompileFrom(self, states) ==
    IF states = <<>> THEN NoSql(self)
    ELSE From_rest(compile_single(self, Head(states)), states)

\* "; ".join(compiled_parts), bound_parameters
Compile_sql(all) == [sql |-> JoinTokens(all.sql, ";"), params |-> all.params, self |-> all.self]

\* a compile that leaves the chained states out
CompileLiveOnly(self, state) == Compile_sql(CompileFrom(reset(self), <<state>>))

\* SQLCompiler.compile: reset, then the chained states, then the live one,
\* joined by "; "
compile(self, state) == Compile_sql(CompileFrom(reset(self), Append(state.chain, state)))

(***************************************************************************)
(* The builder calls as actions.  A statement-opening method works on      *)
(* `this = self._clone()`: the receiver when its pause flag is set, else a *)
(* new object.                                                             *)
(***************************************************************************)
InitQuery ==
    /\ objs = <<NewQuery>>
    /\ call = [op |-> "none", recv |-> 1, ret |-> 1, pre |-> NewQuery]
    /\ ncalls = 0

\* the object the caller goes on with, as in a fluent chain q.A().B().C():
\* the one the last call returned, the receiver again after a call that raised
Objects == {IF call.ret = Raised THEN call.recv ELSE call.ret}

\* a method that starts with _clone and returns `this`
Opens(o, op, this) ==
    /\ ncalls < MaxCalls
    /\ ncalls' = ncalls + 1
    /\ IF ReturnsSelf(objs[o])
          THEN /\ objs' = [objs EXCEPT ![o] = this]
               /\ call' = [op |-> op, recv |-> o, ret |-> o, pre |-> objs[o]]
          ELSE /\ objs' = Append(objs, this)
               /\ call' = [op |-> op, recv |-> o, ret |-> Len(objs) + 1, pre |-> objs[o]]

\* a method that works on self and returns it, or raises
Mutates(o, op, res) ==
    /\ ncalls < MaxCalls
    /\ ncalls' = ncalls + 1
    /\ objs' = [objs EXCEPT ![o] = res.q]
    /\ call' = [op |-> op, recv |-> o, ret |-> IF res.ok THEN o ELSE Raised, pre |-> objs[o]]

BEGIN(o) == Opens(o, "BEGIN", DoBEGIN(objs[o]))

COMMIT(o) == Mutates(o, "COMMIT", [ok |-> TRUE, q |-> DoCOMMIT(objs[o])])

DELETE_FROM(o) == Opens(o, "DELETE_FROM", DoDELETE_FROM(objs[o], TableArg))

FROM(o) == Mutates(o, "FROM", DoFROM(objs[o], <<Str(<<TableArg>>)>>))

INSERT_INTO(o) == Opens(o, "INSERT_INTO", DoINSERT_INTO(objs[o], TableArg, <<ColumnArg>>))

SELECT(o, arg) == Opens(o, "SELECT", DoSELECT(objs[o], arg))

SET(o) == Mutates(o, "SET", [ok |-> TRUE, q |-> DoSET(objs[o], SetArg)])

UPDATE(o) == Opens(o, "UPDATE", DoUPDATE(objs[o], TableArg))

VALUES(o) == Mutates(o, "VALUES", [ok |-> TRUE, q |-> DoVALUES(objs[o], <<Tuple(RowArg)>>)])

WHERE(o) ==
    \E names \in Orderings(objs[o].tablenames) :
        Mutates(o, "WHERE", DoWHERE(objs[o], WhereArg, names))

WITH_(o) == Opens(o, "WITH", DoWITH(objs[o], CteAlias, CteQuery))

UNION_(o) == Mutates(o, "UNION", RaiseNotImplemented(objs[o]))

UPSERT(o) == Mutates(o, "UPSERT", RaiseNotImplemented(objs[o]))

WITHOUT(o) == Mutates(o, "WITHOUT", RaiseNotImplemented(objs[o]))

QueryFrame == UNCHANGED <<poolVars, execVars, compileVars, sessionVars, runVars>>

NextQuery ==
    \/ \E o \in Objects : BEGIN(o) /\ QueryFrame
    \/ \E o \in Objects : COMMIT(o) /\ QueryFrame
    \/ \E o \in Objects : DELETE_FROM(o) /\ QueryFrame
    \/ \E o \in Objects : FROM(o) /\ QueryFrame
    \/ \E o \in Objects : INSERT_INTO(o) /\ QueryFrame
    \/ \E o \in Objects : \E arg \in SelectArgs : SELECT(o, arg) /\ QueryFrame
    \/ \E o \in Objects : SET(o) /\ QueryFrame
    \/ \E o \in Objects : UPDATE(o) /\ QueryFrame
    \/ \E o \in Objects : VALUES(o) /\ QueryFrame
    \/ \E o \in Objects : WHERE(o) /\ QueryFrame
    \/ \E o \in Objects : WITH_(o) /\ QueryFrame
    \/ \E o \in Objects : UNION_(o) /\ QueryFrame
    \/ \E o \in Objects : UPSERT(o) /\ QueryFrame
    \/ \E o \in Objects : WITHOUT(o) /\ QueryFrame

(***************************************************************************)
(* Database.execute.  The caller builds the SQL of the whole chain, enters *)
(* `async with self._engine.pool.acquire() as connection`, hands the one   *)
(* string to one driver call on that connection and leaves the block when  *)
(* the call has returned or raised.  The server runs the statements of the *)
(* string one after the other.  The pool is the vendor driver's: it hands  *)
(* a connection to one caller at a time.                                   *)
(***************************************************************************)
ExecConns == 1..MaxSize

\* Query().BEGIN().INSERT_INTO("t", ("a",)).VALUES((1,)).COMMIT()
TransactionQuery ==
    DoCOMMIT(DoVALUES(DoINSERT_INTO(DoBEGIN(NewQuery), TableArg, <<ColumnArg>>), <<Tuple(RowArg)>>))

\* Query().SELECT("b").FROM("t")
PlainQuery == DoFROM(DoSELECT(NewQuery, Str(<<"b">>)), <<Str(<<TableArg>>)>>).q

ExecQueries == {TransactionQuery, PlainQuery}

\* the leading keyword of each "; "-separated statement of query.build()
Statements(q) ==
    LET parts == CompileFrom(reset(q.compiler), Append(q.state.chain, q.state)).sql
    IN  [i \in 1..Len(parts) |-> parts[i][1]]

InitExec ==
    /\ borrowed = [c \in ExecConns |-> NoTask]
    /\ epc = [t \in Tasks |-> "idle"]
    /\ econn = [t \in Tasks |-> NoConn]
    /\ esql = [t \in Tasks |-> <<>>]
    /\ nsent = [t \in Tasks |-> 0]
    /\ wire = [c \in ExecConns |-> <<>>]

\* sql = query.build(); the caller then waits in pool.acquire().__aenter__
execute(t, q) ==
    /\ epc[t] = "idle"
    /\ epc' = [epc EXCEPT ![t] = "acquiring"]
    /\ esql' = [esql EXCEPT ![t] = Statements(q)]
    /\ UNCHANGED <<borrowed, econn, nsent, wire>>

\* a caller that takes the connection without keeping it for itself
ExecuteAcquireNoHold(t) ==
    /\ epc[t] = "acquiring"
    /\ \E c \in ExecConns :
          /\ borrowed[c] = NoTask
          /\ econn' = [econn EXCEPT ![t] = c]
          /\ UNCHANGED borrowed
    /\ epc' = [epc EXCEPT ![t] = "running"]
    /\ UNCHANGED <<esql, nsent, wire>>

\* __aenter__ returns a connection no other caller has; method(sql, *args) starts
ExecuteAcquire(t) ==
    /\ epc[t] = "acquiring"
    /\ \E c \in ExecConns :
          /\ borrowed[c] = NoTask
          /\ econn' = [econn EXCEPT ![t] = c]
          /\ borrowed' = [borrowed EXCEPT ![c] = t]
    /\ epc' = [epc EXCEPT ![t] = "running"]
    /\ UNCHANGED <<esql, nsent, wire>>

\* entering the block raises (the pool refuses, or what acquire() returned is
\* not an async context manager): logged and raised again, nothing was sent
ExecuteAcquireRaises(t) ==
    /\ epc[t] = "acquiring"
    /\ epc' = [epc EXCEPT ![t] = "raised"]
    /\ UNCHANGED <<borrowed, econn, esql, nsent, wire>>

\* the server runs the next statement of the string on the caller's connection
ServerStep(t) ==
    /\ epc[t] = "running"
    /\ nsent[t] < Len(esql[t])
    /\ nsent' = [nsent EXCEPT ![t] = @ + 1]
    /\ wire' = [wire EXCEPT ![econn[t]] = Append(@, [task |-> t, stmt |-> esql[t][nsent[t] + 1]])]
    /\ UNCHANGED <<borrowed, epc, econn, esql>>

\* leaving the `async with` block gives the connection back to the pool
ExitBlock(t, outcome) ==
    /\ borrowed' = [c \in ExecConns |-> IF borrowed[c] = t THEN NoTask ELSE borrowed[c]]
    /\ epc' = [epc EXCEPT ![t] = outcome]
    /\ UNCHANGED <<econn, esql, nsent, wire>>

\* the driver call returns after the last statement
ExecuteReturn(t) ==
    /\ epc[t] = "running"
    /\ nsent[t] = Len(esql[t])
    /\ ExitBlock(t, "done")

\* the driver call raises before the last statement was run
ExecuteRaise(t) ==
    /\ epc[t] = "running"
    /\ nsent[t] < Len(esql[t])
    /\ ExitBlock(t, "raised")

ExecFrame == UNCHANGED <<poolVars, queryVars, compileVars, sessionVars, runVars>>

NextExec ==
    \/ \E t \in Tasks : \E q \in ExecQueries : execute(t, q) /\ ExecFrame
    \/ \E t \in Tasks : ExecuteAcquire(t) /\ ExecFrame
    \/ \E t \in Tasks : ExecuteAcquireRaises(t) /\ ExecFrame
    \/ \E t \in Tasks : ServerStep(t) /\ ExecFrame
    \/ \E t \in Tasks : ExecuteReturn(t) /\ ExecFrame
    \/ \E t \in Tasks : ExecuteRaise(t) /\ ExecFrame

(***************************************************************************)
(* One fluent chain q.A(...).B(...)... on Query(engine), with build()      *)
(* called on what the chain has reached.  The arguments are drawn from the *)
(* shapes the builder methods and the node compilers tell apart.           *)
(***************************************************************************)
\* Query._clone as the caller of an opening method sees it: the receiver when
\* its pause flag is set, else a new Query with copies of the receiver's
\* state and a compiler of its own
Clone(q) == IF ReturnsSelf(q) THEN q ELSE [q EXCEPT !.compiler = NewCompiler(EngineArg)]

TableP == Table("p", "None")

FieldArg == Field("a", TableP)

\* a Query with a parameterised predicate, passed to WITH as the CTE
SubQueryArg ==
    DoWHERE(DoFROM(DoSELECT(NewQuery, Str(<<"b">>)), <<Str(<<"u">>)>>).q, FieldEq(FieldArg, IntVal("7")), <<>>).q

SelectInputs ==
    { Str(<<"t", "a">>),
      Str(<<"b">>),
      Function("LOWER", <<Str(<<"a\\b">>)>>),
      Function("ABS", <<IntVal("1")>>),
      JsonObject(<<Str(<<"k">>), FieldArg>>),
      FILTER(WindowFunction("COUNT", <<FieldArg>>), Condition(FieldArg, ">", IntVal("1"))),
      OVER(WindowFunction("NTILE", <<IntVal("4")>>), None),
      AS(OVER(FILTER(DISTINCT(WindowFunction("SUM", <<FieldArg>>)),
                     Condition(FieldArg, ">", IntVal("2"))),
              None),
         "s"),
      FieldArg,
      TableP }

WhereInputs ==
    { Str(<<"x = 1">>),
      FieldEq(FieldArg, IntVal("1")),
      FieldEq(FieldArg, None),
      FieldNe(FieldArg, None),
      BooleanCondition(FieldEq(FieldArg, IntVal("1")), "OR",
                       BetweenCondition(FieldArg, IntVal("2"), IntVal("3"))),
      FieldIN(FieldArg, Tuple(<<>>)),
      FieldIN(FieldArg, Tuple(<<IntVal("1")>>)),
      FieldNOT_IN(FieldArg, Tuple(<<IntVal("2"), IntVal("1")>>)),
      FieldIN(FieldArg, Tuple(<<IntVal("3"), IntVal("1"), IntVal("2")>>)),
      FieldArg }

SetInputs == { Str(<<"a = 1">>), FieldEq(FieldArg, IntVal("2")) }

\* VALUES(a, b), VALUES((a, b)), VALUES((a, b), (c, d)), VALUES([(a, b), (c, d)])
ValuesInputs ==
    LET ab == <<IntVal("1"), Str(<<"x">>)>>
        cd == <<IntVal("2"), Str(<<"y">>)>>
    IN  { Tuple(ab),
          Tuple(<<Tuple(ab)>>),
          Tuple(<<Tuple(ab), Tuple(cd)>>),
          Tuple(<<Tuple(<<Tuple(ab), Tuple(cd)>>)>>) }

WithInputs == { CteQuery, SubQueryArg }

\* a call without arguments
NoArgs == [kind |-> "noargs"]

\* one builder call on q: the method by name, its argument a value; of a
\* call that raises, q is the receiver as the call left it
Apply(q, c) ==
    CASE c.op = "SELECT" -> [ok |-> TRUE, q |-> DoSELECT(Clone(q), c.arg)]
      [] c.op = "FROM" -> DoFROM(q, IF c.arg = NoArgs THEN <<>> ELSE <<c.arg>>)
      [] c.op = "JOIN" ->
            IF Unsupported(c.arg) THEN [ok |-> FALSE, q |-> DoJOINUnsupported(q)]
            ELSE [ok |-> TRUE, q |-> DoJOIN(q, Text(c.arg), "None", "INNER")]
      [] c.op = "WHERE" -> DoWHERE(q, c.arg, c.names)
      [] c.op = "GROUP_BY" -> [ok |-> TRUE, q |-> DoGROUP_BY(q, <<Text(c.arg)>>)]
      [] c.op = "WINDOW" -> [ok |-> TRUE, q |-> DoWINDOW(q, "w", c.arg)]
      [] c.op = "ORDER_BY" -> [ok |-> TRUE, q |-> DoORDER_BY(q, <<Text(c.arg)>>)]
      [] c.op = "LIMIT" -> [ok |-> TRUE, q |-> DoLIMIT(q, c.arg, None)]
      [] c.op = "RETURNING" -> [ok |-> TRUE, q |-> DoRETURNING(q, <<Text(c.arg)>>)]
      [] c.op = "INSERT_INTO" ->
            [ok |-> TRUE, q |-> DoINSERT_INTO(Clone(q), Text(c.arg), <<ColumnArg>>)]
      [] c.op = "VALUES" -> [ok |-> TRUE, q |-> DoVALUES(q, c.arg.items)]
      [] c.op = "UPDATE" -> [ok |-> TRUE, q |-> DoUPDATE(Clone(q), Text(c.arg))]
      [] c.op = "SET" -> [ok |-> TRUE, q |-> DoSET(q, c.arg)]
      [] c.op = "DELETE_FROM" ->
            IF Unsupported(c.arg)
               THEN [ok |-> FALSE,
                     q |-> IF ReturnsSelf(q) THEN DoDELETE_FROMUnsupported(q) ELSE q]
               ELSE [ok |-> TRUE, q |-> DoDELETE_FROM(Clone(q), Text(c.arg))]
      [] c.op = "WITH" -> [ok |-> TRUE, q |-> DoWITH(Clone(q), CteAlias, c.arg)]

RECURSIVE ReplayFrom(_, _)
\* the calls of a sequence made one after the other on q; a call that raises
\* ends the chain
ReplayFrom(q, calls) ==
    IF calls = <<>> THEN [ok |-> TRUE, q |-> q]
    ELSE LET r == Apply(q, Head(calls))
         IN  IF r.ok THEN ReplayFrom(r.q, Tail(calls)) ELSE r

RECURSIVE RenameJson(_, _)
\* what compiling a node leaves in it: JsonObject.compile assigns self.name
RenameJson(self, node) ==
    CASE node.kind = "JsonObject" ->
            [node EXCEPT !.name = JsonObjectName(self),
                         !.args = [i \in 1..Len(node.args) |-> RenameJson(self, node.args[i])]]
      [] node.kind = "Function" ->
            [node EXCEPT !.args = [i \in 1..Len(node.args) |-> RenameJson(self, node.args[i])]]
      [] node.kind = "WindowFunction" ->
            [node EXCEPT !.args = [i \in 1..Len(node.args) |-> RenameJson(self, node.args[i])],
                         !.filter = RenameJson(self, node.filter)]
      [] node.kind = "BooleanCondition" ->
            [node EXCEPT !.left = RenameJson(self, node.left),
                         !.right = RenameJson(self, node.right)]
      [] OTHER -> node

\* the nodes of a list after they were compiled
Renamed(self, xs) == [i \in 1..Len(xs) |-> RenameJson(self, xs[i])]

RECURSIVE AfterBuild(_)

\* the CTEs of a statement after it was compiled: a Query object was printed
PrintedCtes(xs) ==
    [i \in 1..Len(xs) |->
        IF xs[i][2].kind = "Query" THEN <<xs[i][1], AfterBuild(xs[i][2])>> ELSE xs[i]]

\* a state after _compile_single
AfterSingle(self, st) ==
    CASE st.statement_type = "SELECT" ->
            [st EXCEPT !.ctes = PrintedCtes(@), !.selects = Renamed(self, @),
                       !.wheres = Renamed(self, @)]
      [] st.statement_type = "INSERT" ->
            IF st.insert_values = <<>> /\ st.values = <<>> /\ st.selects # <<>>
               THEN [st EXCEPT !.ctes = PrintedCtes(@), !.selects = Renamed(self, @),
                               !.wheres = Renamed(self, @)]
               ELSE [st EXCEPT !.ctes = PrintedCtes(@)]
      [] st.statement_type = "UPDATE" ->
            [st EXCEPT !.ctes = PrintedCtes(@), !.updates = Renamed(self, @),
                       !.wheres = Renamed(self, @)]
      [] st.statement_type = "DELETE" ->
            [st EXCEPT !.ctes = PrintedCtes(@), !.wheres = Renamed(self, @)]
      [] OTHER -> st

\* a state after SQLCompiler.compile: the chained states and the live one
AfterCompile(self, state) ==
    [AfterSingle(self, state) EXCEPT
        !.chain = [i \in 1..Len(@) |-> AfterSingle(self, @[i])]]

\* Query.build, after sql, params = self._compiler.compile(self._state)
Built(q, r) ==
    [q EXCEPT !.args = r.params, !.compiler = r.self, !.state = AfterCompile(q.compiler, @)]

\* the Query after build(): _args holds the parameters, the compiler its
\* counter, and the nodes of the compiled statements what compile left in them
AfterBuild(q) == Built(q, build(q))

\* what build() hands to the caller: the SQL, and the parameters in _args
Output(r) == [sql |-> r.sql, params |-> r.params]

InitCompile ==
    /\ cq = NewQuery
    /\ hist = <<>>
    /\ builds = <<>>
    /\ before = NewQuery

\* a builder call on the object the chain has reached; a call that raises
\* is not part of the chain
Call(c) ==
    /\ Len(hist) < MaxSteps
    /\ LET r == Apply(cq, c)
       IN  /\ r.ok
           /\ cq' = r.q
    /\ hist' = Append(hist, c)
    /\ builds' = <<>>
    /\ before' = before

CallSELECT == \E a \in SelectInputs : Call([op |-> "SELECT", arg |-> a])

CallFROM == Call([op |-> "FROM", arg |-> Str(<<TableArg>>)])

CallJOIN == Call([op |-> "JOIN", arg |-> Str(<<"u">>)])

CallWHERE ==
    \E a \in WhereInputs : \E names \in Orderings(cq.tablenames) :
        Call([op |-> "WHERE", arg |-> a, names |-> names])

CallGROUP_BY == Call([op |-> "GROUP_BY", arg |-> Str(<<"b">>)])

CallWINDOW == Call([op |-> "WINDOW", arg |-> WindowSpec(<<"b">>)])

CallORDER_BY == Call([op |-> "ORDER_BY", arg |-> Str(<<"b">>)])

CallLIMIT == Call([op |-> "LIMIT", arg |-> IntVal("5")])

CallRETURNING == Call([op |-> "RETURNING", arg |-> Str(<<"b">>)])

CallINSERT_INTO == Call([op |-> "INSERT_INTO", arg |-> Str(<<TableArg>>)])

CallVALUES == \E a \in ValuesInputs : Call([op |-> "VALUES", arg |-> a])

CallUPDATE == Call([op |-> "UPDATE", arg |-> Str(<<TableArg>>)])

CallSET == \E a \in SetInputs : Call([op |-> "SET", arg |-> a])

CallDELETE_FROM == Call([op |-> "DELETE_FROM", arg |-> Str(<<TableArg>>)])

CallWITH == \E a \in WithInputs : Call([op |-> "WITH", arg |-> a])

\* Query.build() on the object the chain has reached: twice at most between
\* two builder calls
Build ==
    /\ hist # <<>>
    /\ Len(builds) < 2
    /\ builds' = Append(builds, Output(build(cq)))
    /\ before' = cq
    /\ cq' = AfterBuild(cq)
    /\ hist' = hist

CompileFrame == UNCHANGED <<poolVars, queryVars, execVars, sessionVars, runVars>>

NextCompile ==
    \/ CallSELECT /\ CompileFrame
    \/ CallFROM /\ CompileFrame
    \/ CallJOIN /\ CompileFrame
    \/ CallWHERE /\ CompileFrame
    \/ CallGROUP_BY /\ CompileFrame
    \/ CallWINDOW /\ CompileFrame
    \/ CallORDER_BY /\ CompileFrame
    \/ CallLIMIT /\ CompileFrame
    \/ CallRETURNING /\ CompileFrame
    \/ CallINSERT_INTO /\ CompileFrame
    \/ CallVALUES /\ CompileFrame
    \/ CallUPDATE /\ CompileFrame
    \/ CallSET /\ CompileFrame
    \/ CallDELETE_FROM /\ CompileFrame
    \/ CallWITH /\ CompileFrame
    \/ Build /\ CompileFrame

\* the builder calls that raise ArgumentError
RaisingCalls ==
    { [op |-> "FROM", arg |-> NoArgs],
      [op |-> "FROM", arg |-> IntVal("5")],
      [op |-> "JOIN", arg |-> IntVal("5")],
      [op |-> "DELETE_FROM", arg |-> IntVal("5")] }

\* a builder call that raises: the caller catches the error and goes on
\* with the receiver
CallRaising ==
    \E c \in RaisingCalls :
        /\ Len(hist) < MaxSteps
        /\ ~Apply(cq, c).ok
        /\ cq' = Apply(cq, c).q
        /\ hist' = Append(hist, c)
        /\ builds' = <<>>
        /\ before' = before

NextRaise ==
    \/ CallSELECT /\ CompileFrame
    \/ CallFROM /\ CompileFrame
    \/ CallWHERE /\ CompileFrame
    \/ CallINSERT_INTO /\ CompileFrame
    \/ CallUPDATE /\ CompileFrame
    \/ CallRaising /\ CompileFrame
    \/ Build /\ CompileFrame

(***************************************************************************)
(* core/database.py and the vendor adapters: Database.connect/disconnect   *)
(* over Engine.connect/disconnect, and Connection.begin/done over the      *)
(* pool the Connection was built on.  One caller; the driver's pool is     *)
(* seen through the calls made to it and what they return or raise.        *)
(***************************************************************************)
Vendors == {"sqlite", "postgres", "mysql", "mssql"}

\* Engine.pool = None
NoPool == 0

\* the decorators of postgres.py, mysql.py and mssql.py, as the condition they assert
connectable(connection) == connection = NoConn

disconnectable(connection) == connection # NoConn

\* the decorators of sqlite.py
sqlite_connected(connection) == connection # NoConn

sqlite_disconnected(connection) == connection = NoConn

\* the decorator on Connection.begin of each adapter
begin_decorator(v, connection) ==
    CASE v = "sqlite" -> sqlite_disconnected(connection)
      [] v = "postgres" -> disconnectable(connection)
      [] v = "mysql" -> connectable(connection)
      [] v = "mssql" -> connectable(connection)

\* the decorator on Connection.done of each adapter
done_decorator(v, connection) ==
    CASE v = "sqlite" -> sqlite_connected(connection)
      [] v = "postgres" -> connectable(connection)
      [] v = "mysql" -> disconnectable(connection)
      [] v = "mssql" -> disconnectable(connection)

\* the connection pool.acquire() returns: one the pool has not handed out
Acquired(v) == CHOOSE c \in ConnIds : c \notin lent[v] /\ \A d \in ConnIds : d < c => d \in lent[v]

\* creating the pool can fail in the drivers that connect to a server;
\* sqlite's Pool(...) opens nothing
CreateOutcomes(v) == IF v = "sqlite" THEN {"ok"} ELSE {"ok", "DriverError"}

SamePool(made) == 1

\* the object create_pool(...) or Pool(...) returns: a new pool at each call
NewPool(made) == made + 1

InitSession ==
    /\ db_connected = [v \in Vendors |-> FALSE]
    /\ engine_pool = [v \in Vendors |-> NoPool]
    /\ pools_made = [v \in Vendors |-> 0]
    /\ session = [v \in Vendors |-> NoConn]
    /\ lent = [v \in Vendors |-> {}]
    /\ lastcall = [op |-> "none", vendor |-> "none", raised |-> "none", pool |-> <<>>]
    /\ nops = 0

Returned(op, v, poolcalls) == [op |-> op, vendor |-> v, raised |-> "none", pool |-> poolcalls]

Failed(op, v, error, poolcalls) == [op |-> op, vendor |-> v, raised |-> error, pool |-> poolcalls]

\* Connection.begin: the decorator's assertion, then pool.acquire(), which
\* returns a connection or raises
begin(v) ==
    /\ nops < MaxOps
    /\ nops' = nops + 1
    /\ IF ~begin_decorator(v, session[v])
          THEN /\ lastcall' = Failed("begin", v, "AssertionError", <<>>)
               /\ UNCHANGED <<session, lent>>
          ELSE \/ /\ lent[v] # ConnIds
                  /\ session' = [session EXCEPT ![v] = Acquired(v)]
                  /\ lent' = [lent EXCEPT ![v] = @ \cup {Acquired(v)}]
                  /\ lastcall' = Returned("begin", v, <<<<"acquire">>>>)
               \/ /\ lastcall' = Failed("begin", v, "DriverError", <<<<"acquire">>>>)
                  /\ UNCHANGED <<session, lent>>
    /\ UNCHANGED <<db_connected, engine_pool, pools_made>>

\* Connection.done: the decorator's assertion, then pool.release(self._connection)
\* and self._connection = None; a pool handed something it did not lend may
\* raise or return
done(v) ==
    /\ nops < MaxOps
    /\ nops' = nops + 1
    /\ IF ~done_decorator(v, session[v])
          THEN /\ lastcall' = Failed("done", v, "AssertionError", <<>>)
               /\ UNCHANGED <<session, lent>>
          ELSE \/ /\ session' = [session EXCEPT ![v] = NoConn]
                  /\ lent' = [lent EXCEPT ![v] = @ \ {session[v]}]
                  /\ lastcall' = Returned("done", v, <<<<"release", session[v]>>>>)
               \/ /\ session[v] \notin lent[v]
                  /\ lastcall' = Failed("done", v, "DriverError", <<<<"release", session[v]>>>>)
                  /\ UNCHANGED <<session, lent>>
    /\ UNCHANGED <<db_connected, engine_pool, pools_made>>

\* Database.connect over Engine.connect: both assertions, then the pool is
\* created and stored, and connected is set
connect(v) ==
    /\ nops < MaxOps
    /\ nops' = nops + 1
    /\ IF db_connected[v] \/ engine_pool[v] # NoPool
          THEN /\ lastcall' = Failed("connect", v, "AssertionError", <<>>)
               /\ UNCHANGED <<db_connected, engine_pool, pools_made>>
          ELSE \E outcome \in CreateOutcomes(v) :
                  IF outcome = "ok"
                     THEN /\ engine_pool' = [engine_pool EXCEPT ![v] = NewPool(pools_made[v])]
                          /\ pools_made' = [pools_made EXCEPT ![v] = @ + 1]
                          /\ db_connected' = [db_connected EXCEPT ![v] = TRUE]
                          /\ lastcall' = Returned("connect", v, <<>>)
                     ELSE /\ lastcall' = Failed("connect", v, outcome, <<>>)
                          /\ UNCHANGED <<db_connected, engine_pool, pools_made>>
    /\ UNCHANGED <<session, lent>>

\* Database.disconnect over Engine.disconnect: both assertions, then the pool
\* is closed and forgotten, and connected is cleared; closing can raise
disconnect(v) ==
    /\ nops < MaxOps
    /\ nops' = nops + 1
    /\ IF ~db_connected[v] \/ engine_pool[v] = NoPool
          THEN /\ lastcall' = Failed("disconnect", v, "AssertionError", <<>>)
               /\ UNCHANGED <<db_connected, engine_pool, pools_made>>
          ELSE \/ /\ engine_pool' = [engine_pool EXCEPT ![v] = NoPool]
                  /\ db_connected' = [db_connected EXCEPT ![v] = FALSE]
                  /\ lastcall' = Returned("disconnect", v, <<<<"close">>>>)
                  /\ UNCHANGED pools_made
               \/ /\ lastcall' = Failed("disconnect", v, "DriverError", <<<<"close">>>>)
                  /\ UNCHANGED <<db_connected, engine_pool, pools_made>>
    /\ UNCHANGED <<session, lent>>

\* Engine.connection(): a Connection on the engine's pool; sqlite's creates
\* the pool when the engine has none
Engine_connection(v) ==
    /\ nops < MaxOps
    /\ nops' = nops + 1
    /\ IF v = "sqlite" /\ engine_pool[v] = NoPool
          THEN /\ engine_pool' = [engine_pool EXCEPT ![v] = NewPool(pools_made[v])]
               /\ pools_made' = [pools_made EXCEPT ![v] = @ + 1]
          ELSE UNCHANGED <<engine_pool, pools_made>>
    /\ lastcall' = Returned("connection", v, <<>>)
    /\ UNCHANGED <<db_connected, session, lent>>

SessionFrame == UNCHANGED <<poolVars, queryVars, execVars, compileVars, runVars>>

NextSession ==
    \/ \E v \in Vendors : begin(v) /\ SessionFrame
    \/ \E v \in Vendors : done(v) /\ SessionFrame
    \/ \E v \in Vendors : connect(v) /\ SessionFrame
    \/ \E v \in Vendors : disconnect(v) /\ SessionFrame

(***************************************************************************)
(* core/query.py: Query.run.  Each task calls run() once on the same       *)
(* Query: `async with self._db` connects the Database, Database.execute    *)
(* runs the statement on Engine.pool, and leaving the block disconnects.   *)
(* A task is suspended while the driver creates the pool, while the        *)
(* statement runs and while the pool closes.                               *)
(***************************************************************************)
\* the messages of the assertions of Database.connect and Database.disconnect
ConnectedAlready == "Connected already..."
NotConnected == "No existing connections found..."

\* the messages of the assertions of Engine.connect and Engine.disconnect
CONNECTED_MESSAGE == "CONNECTED_MESSAGE"
DISCONNECTED_MESSAGE == "DISCONNECTED_MESSAGE"

InitRun ==
    /\ rpc = [t \in Tasks |-> "idle"]
    /\ rpool = [t \in Tasks |-> NoPool]
    /\ rerr = [t \in Tasks |-> "none"]
    /\ close_called = {}
    /\ run_vendor = "none"

\* run() ends with an exception
RunRaises(t, error) ==
    /\ rpc' = [rpc EXCEPT ![t] = "failed"]
    /\ rerr' = [rerr EXCEPT ![t] = error]

\* Database.connect has a pool: connected is set, and Database.execute takes
\* Engine.pool and starts the statement
Connected(t, v) ==
    /\ engine_pool' = [engine_pool EXCEPT ![v] = NewPool(pools_made[v])]
    /\ pools_made' = [pools_made EXCEPT ![v] = @ + 1]
    /\ db_connected' = [db_connected EXCEPT ![v] = TRUE]
    /\ rpool' = [rpool EXCEPT ![t] = NewPool(pools_made[v])]
    /\ rpc' = [rpc EXCEPT ![t] = "executing"]
    /\ UNCHANGED rerr

\* Query.run up to the first suspension: build(), then Database.__aenter__
\* calls connect(), which asserts and calls Engine.connect; sqlite's creates
\* the pool without awaiting, the others await the driver's create_pool
RunEnter(t, v) ==
    /\ rpc[t] = "idle"
    /\ run_vendor \in {"none", v}
    /\ run_vendor' = v
    /\ IF db_connected[v]
          THEN RunRaises(t, ConnectedAlready)
               /\ UNCHANGED <<engine_pool, pools_made, db_connected, rpool>>
       ELSE IF engine_pool[v] # NoPool
          THEN RunRaises(t, CONNECTED_MESSAGE)
               /\ UNCHANGED <<engine_pool, pools_made, db_connected, rpool>>
       ELSE IF v = "sqlite"
          THEN Connected(t, v)
          ELSE /\ rpc' = [rpc EXCEPT ![t] = "creating"]
               /\ UNCHANGED <<engine_pool, pools_made, db_connected, rpool, rerr>>
    /\ UNCHANGED <<session, lent, lastcall, nops, close_called>>

\* the driver's create_pool returns: Engine.connect stores the pool
RunCreated(t) ==
    /\ rpc[t] = "creating"
    /\ Connected(t, run_vendor)
    /\ UNCHANGED <<session, lent, lastcall, nops, close_called, run_vendor>>

\* the statement returns: Database.__aexit__ calls disconnect(), which
\* asserts and calls Engine.disconnect, which asserts and awaits the close
\* of Engine.pool
RunExit(t) ==
    /\ rpc[t] = "executing"
    /\ IF ~db_connected[run_vendor]
          THEN RunRaises(t, NotConnected) /\ UNCHANGED close_called
       ELSE IF engine_pool[run_vendor] = NoPool
          THEN RunRaises(t, DISCONNECTED_MESSAGE) /\ UNCHANGED close_called
          ELSE /\ close_called' = close_called \cup {engine_pool[run_vendor]}
               /\ rpc' = [rpc EXCEPT ![t] = "closing"]
               /\ UNCHANGED rerr
    /\ UNCHANGED <<db_connected, engine_pool, pools_made, rpool, run_vendor>>
    /\ UNCHANGED <<session, lent, lastcall, nops>>

\* the close returns: Engine.disconnect forgets the pool and
\* Database.disconnect clears connected
RunClosed(t) ==
    /\ rpc[t] = "closing"
    /\ engine_pool' = [engine_pool EXCEPT ![run_vendor] = NoPool]
    /\ db_connected' = [db_connected EXCEPT ![run_vendor] = FALSE]
    /\ rpc' = [rpc EXCEPT ![t] = "done"]
    /\ UNCHANGED <<pools_made, rpool, rerr, close_called, run_vendor>>
    /\ UNCHANGED <<session, lent, lastcall, nops>>

RunFrame == UNCHANGED <<poolVars, queryVars, execVars, compileVars>>

NextRun ==
    \/ \E t \in Tasks : \E v \in Vendors : RunEnter(t, v) /\ RunFrame
    \/ \E t \in Tasks : RunCreated(t) /\ RunFrame
    \/ \E t \in Tasks : RunExit(t) /\ RunFrame
    \/ \E t \in Tasks : RunClosed(t) /\ RunFrame

NextEngine ==
    \/ \E v \in Vendors : connect(v) /\ SessionFrame
    \/ \E v \in Vendors : disconnect(v) /\ SessionFrame
    \/ \E v \in Vendors : Engine_connection(v) /\ SessionFrame

Init == InitPool /\ InitQuery /\ InitExec /\ InitCompile /\ InitSession /\ InitRun

\* a caller of Database.connect/disconnect and of Connection.begin/done, on each vendor
SpecSession == Init /\ [][NextSession]_vars

\* a caller of Database.connect/disconnect and of Engine.connection, on each vendor
SpecEngine == Init /\ [][NextEngine]_vars

\* the tasks that call run() on one Query
SpecRun == Init /\ [][NextRun]_vars

\* builder calls made on a prototype Query and on the objects the calls return
SpecQuery == Init /\ [][NextQuery]_vars

\* concurrent callers of Database.execute, each with one query
SpecExec == Init /\ [][NextExec]_vars

\* the pool used by concurrent tasks that acquire, release and close at will
SpecPool == Init /\ [][NextPool]_vars

(***************************************************************************)
(* The same pool under asyncio's scheduling: a task that can run does run  *)
(* (the event loop serves ready tasks in turn), the timer of wait_for      *)
(* fires, and opening a connection returns or raises.  Starting an         *)
(* acquire, a release or a close is the caller's choice and is not forced. *)
(***************************************************************************)
FairPool ==
    \A t \in Tasks :
        /\ WF_poolVars(AcquireLocked(t))
        /\ WF_poolVars(OpenDone(t) \/ OpenFail(t))
        /\ WF_poolVars(QueueGet(t))
        /\ WF_poolVars(Timeout(t))
        /\ WF_poolVars(ReleaseClosed(t))
        /\ WF_poolVars(ReleaseLocked(t))

SpecPoolFair == Init /\ [][NextPool]_vars /\ FairPool

(***************************************************************************)
(* A fresh pool on which every task calls acquire() once, every opening    *)
(* succeeds and close() is not called.                                     *)
(***************************************************************************)
FirstAcquire(t) == t \notin called /\ AcquireStart(t)

NextFresh ==
    \/ \E t \in Tasks : FirstAcquire(t) /\ PoolFrame
    \/ \E t \in Tasks : AcquireLocked(t) /\ PoolFrame
    \/ \E t \in Tasks : OpenDone(t) /\ PoolFrame
    \/ \E t \in Tasks : QueueGet(t) /\ PoolFrame
    \/ \E t \in Tasks : Timeout(t) /\ PoolFrame
    \/ \E t \in Tasks : ReleaseStart(t) /\ PoolFrame

SpecFresh == Init /\ [][NextFresh]_vars

(***************************************************************************)
(* The pool on which close() is not called and no task is cancelled:       *)
(* tasks acquire and release at will, openings return or raise.            *)
(***************************************************************************)
NextNoClose ==
    \/ \E t \in Tasks : AcquireStart(t) /\ PoolFrame
    \/ \E t \in Tasks : AcquireLocked(t) /\ PoolFrame
    \/ \E t \in Tasks : OpenDone(t) /\ PoolFrame
    \/ \E t \in Tasks : OpenFail(t) /\ PoolFrame
    \/ \E t \in Tasks : QueueGet(t) /\ PoolFrame
    \/ \E t \in Tasks : Timeout(t) /\ PoolFrame
    \/ \E t \in Tasks : ReleaseStart(t) /\ PoolFrame

SpecNoClose == Init /\ [][NextNoClose]_vars

(***************************************************************************)
(* Cancellation of a task inside Pool.acquire: CancelledError is raised at *)
(* the await the task is suspended in.  It is a BaseException, so the      *)
(* `except Exception` of lines 149-152 does not run for it, while          *)
(* `async with self._lock` releases the lock on the way out.               *)
(***************************************************************************)
\* cancelled in Lock.acquire (line 134): the waiter leaves the lock's queue
CancelLockWait(t) ==
    /\ pc[t] = "lockwait"
    /\ lock_waiters' = Without(lock_waiters, t)
    /\ pc' = [pc EXCEPT ![t] = "cancelled"]
    /\ UNCHANGED <<queue, getters, woken, current_size, lock_owner, live, held,
                   closer_pc, closer_conn, closer_count, called, origin>>

\* cancelled in connection.__aenter__ (line 146): the counter keeps its
\* increment; the connection the driver thread was opening is either never
\* opened or opened with nobody referring to it
CancelOpening(t) ==
    /\ pc[t] = "opening"
    /\ lock_owner' = NoTask
    /\ pc' = [pc EXCEPT ![t] = "cancelled"]
    /\ \E opened \in BOOLEAN : live' = IF opened THEN live \cup {FreshConn} ELSE live
    /\ UNCHANGED <<queue, getters, woken, current_size, lock_waiters, held,
                   closer_pc, closer_conn, closer_count, called, origin>>

\* cancelled in wait_for(self._queue.get()) (line 157): the getter is
\* withdrawn; had a put resolved it while an item is still queued, the next
\* getter is woken in its place
CancelQueueWait(t) ==
    /\ pc[t] \in {"getting", "waiting"}
    /\ pc' = [pc EXCEPT ![t] = "cancelled"]
    /\ IF t \in woken /\ queue # <<>> /\ Without(getters, t) # <<>>
          THEN /\ woken' = (woken \ {t}) \cup {Head(Without(getters, t))}
               /\ getters' = Tail(Without(getters, t))
          ELSE /\ woken' = woken \ {t}
               /\ getters' = Without(getters, t)
    /\ UNCHANGED <<queue, current_size, lock_owner, lock_waiters, live, held,
                   closer_pc, closer_conn, closer_count, called, origin>>

NextCancel ==
    \/ \E t \in Tasks : AcquireStart(t) /\ PoolFrame
    \/ \E t \in Tasks : AcquireLocked(t) /\ PoolFrame
    \/ \E t \in Tasks : OpenDone(t) /\ PoolFrame
    \/ \E t \in Tasks : OpenFail(t) /\ PoolFrame
    \/ \E t \in Tasks : QueueGet(t) /\ PoolFrame
    \/ \E t \in Tasks : Timeout(t) /\ PoolFrame
    \/ \E t \in Tasks : ReleaseStart(t) /\ PoolFrame
    \/ \E t \in Tasks : CancelLockWait(t) /\ PoolFrame
    \/ \E t \in Tasks : CancelOpening(t) /\ PoolFrame
    \/ \E t \in Tasks : CancelQueueWait(t) /\ PoolFrame

\* the pool without close(), with tasks that may be cancelled inside acquire()
SpecCancel == Init /\ [][NextCancel]_vars

\* the builder calls of one fluent chain and the build() calls on it
SpecCompile == Init /\ [][NextCompile]_vars

SpecRaise == Init /\ [][NextRaise]_vars

(***************************************************************************)
(* Claims about the pool.                                                  *)
(***************************************************************************)
\* tasks whose acquire() is in progress
InAcquire == {"lockwait", "opening", "getting", "waiting"}

\* tasks that have returned their connection to the pool
Released == {t \in called : pc[t] = "idle"}

\* C1: in every reachable state the number of live connections (opened and
\* not yet closed, idle or borrowed) is at most max_size.
C1_LiveAtMostMaxSize == Cardinality(live) <= MaxSize

\* C2: the check current_size < max_size and the increment are atomic with
\* respect to every other acquirer: at most one acquirer at a time has passed
\* the check and is opening a connection, it holds the lock while it does,
\* and current_size never exceeds max_size.
C2_CheckIncrementAtomic ==
    /\ current_size <= MaxSize
    /\ \A t, u \in Tasks : (pc[t] = "opening" /\ pc[u] = "opening") => t = u
    /\ \A t \in Tasks : pc[t] = "opening" => lock_owner = t

\* the last slot is taken by an acquirer that is opening its connection while
\* another acquirer waits for the lock behind it
C2_Witness ==
    /\ current_size = MaxSize
    /\ \E t, u \in Tasks : pc[t] = "opening" /\ pc[u] = "lockwait"

Min(a, b) == IF a <= b THEN a ELSE b

\* tasks that hold a connection they opened themselves
Creators == {t \in Tasks : pc[t] = "holding" /\ origin[t] = "new"}

\* every task has called acquire(), none is still before or inside the
\* creation lock, and no connection has been released yet
AllCalledNoneReleased ==
    /\ called = Tasks
    /\ Released = {}
    /\ \A t \in Tasks : pc[t] \notin {"lockwait", "opening"}

(***************************************************************************)
(* Claims about the Query facade.                                          *)
(***************************************************************************)
\* BEGIN is on the call stack with no COMMIT after it
OpenBegin(cs) ==
    \E i \in 1..Len(cs) :
        /\ cs[i] = "BEGIN"
        /\ \A j \in (i + 1)..Len(cs) : cs[j] # "COMMIT"

Count(tok, sql) == Cardinality({i \in 1..Len(sql) : sql[i] = tok})

\* position of the first occurrence of a token that occurs
IndexOf(tok, sql) == CHOOSE i \in 1..Len(sql) : sql[i] = tok /\ \A j \in 1..(i - 1) : sql[j] # tok

\* C3: on a Query on which BEGIN was never called, a statement-opening call
\* (SELECT, UPDATE, DELETE_FROM, INSERT_INTO, WITH, BEGIN) returns a new
\* object and leaves the receiver as it was.
C3_OpenerLeavesReceiver ==
    (/\ call.op \in {"SELECT", "UPDATE", "DELETE_FROM", "INSERT_INTO", "WITH", "BEGIN"}
     /\ "BEGIN" \notin Range(call.pre.callstack))
    => (call.ret # call.recv /\ objs[call.recv] = call.pre)

\* C4: BEGIN(); INSERT_INTO(...) with VALUES; SELECT(...); COMMIT() on one
\* Query compiles to one "; "-joined string that holds BEGIN, the INSERT, the
\* SELECT and COMMIT, each exactly once and in call order.
C4_TransactionHasAllFourParts ==
    \A o \in 1..Len(objs) :
        objs[o].callstack = <<"BEGIN", "INSERT INTO ", "VALUES ", "SELECT", "COMMIT">> =>
            LET sql == build(objs[o]).sql
            IN  /\ Count("BEGIN", sql) = 1
                /\ Count("INSERT INTO", sql) = 1
                /\ Count("SELECT", sql) = 1
                /\ Count("COMMIT;", sql) = 1
                /\ Count(";", sql) = 3
                /\ IndexOf("BEGIN", sql) < IndexOf("INSERT INTO", sql)
                /\ IndexOf("INSERT INTO", sql) < IndexOf("SELECT", sql)
                /\ IndexOf("SELECT", sql) < IndexOf("COMMIT;", sql)

\* C5: when SELECT, UPDATE, DELETE_FROM, INSERT_INTO or BEGIN is called on a
\* Query whose live state is dirty, that state is appended unchanged to the
\* chain and the new statement starts from an empty state, with no clause of
\* the earlier statement in it.
C5_DirtyStateIsArchived ==
    (/\ call.op \in {"SELECT", "UPDATE", "DELETE_FROM", "INSERT_INTO", "BEGIN"}
     /\ is_dirty(call.pre.state))
    => LET new == objs[call.ret].state
       IN  /\ new.chain = Append(call.pre.state.chain, call.pre.state)
           /\ new.wheres = <<>>
           /\ new.updates = <<>>
           /\ new.insert_values = <<>>
           /\ new.ctes = <<>>
           /\ new.from_sources = IF call.op = "DELETE_FROM" THEN <<Quote(TableArg)>> ELSE <<>>

\* C6: between a BEGIN() and the matching COMMIT(), every builder call made on
\* the object BEGIN returned (INSERT_INTO, VALUES, SELECT, FROM, WHERE, UPDATE,
\* SET, DELETE_FROM, WITH, COMMIT) returns that same object, never a copy.
C6_SameObjectUntilCommit ==
    /\ \A o \in 1..Len(objs) : OpenBegin(objs[o].callstack) => objs[o].pause
    /\ (/\ OpenBegin(call.pre.callstack)
        /\ call.op \in {"INSERT_INTO", "VALUES", "SELECT", "FROM", "WHERE", "UPDATE",
                        "SET", "DELETE_FROM", "WITH", "COMMIT"}
        /\ call.ret # Raised)
       => call.ret = call.recv

\* COMMIT returns the object on which BEGIN and three more calls were made
C6_Witness ==
    /\ call.op = "COMMIT"
    /\ call.ret = call.recv
    /\ OpenBegin(call.pre.callstack)
    /\ Len(call.pre.callstack) >= 4
    /\ "SELECT" \in Range(call.pre.callstack)
    /\ "INSERT INTO " \in Range(call.pre.callstack)

\* C7: the pause flag of a Query is set exactly when BEGIN was called on it
\* with no later COMMIT; on a Query without an open BEGIN every SELECT, UPDATE
\* and DELETE_FROM returns a clone and leaves the receiver as it was.
C7_PauseOnlyInsideBegin ==
    /\ \A o \in 1..Len(objs) : objs[o].pause <=> OpenBegin(objs[o].callstack)
    /\ (/\ call.op \in {"SELECT", "UPDATE", "DELETE_FROM"}
        /\ ~OpenBegin(call.pre.callstack))
       => (call.ret # call.recv /\ objs[call.recv] = call.pre)

\* the places in the statements run on connection c
WirePos(c) == 1..Len(wire[c])

C9_FreshPoolSaturates ==
    /\ Cardinality(live) + Cardinality({t \in Tasks : pc[t] = "opening"}) <= MaxSize
    /\ AllCalledNoneReleased =>
          /\ Cardinality(live) = Min(NTasks, MaxSize)
          /\ Cardinality(Creators) = Min(NTasks, MaxSize)
          /\ \A t \in Tasks \ Creators : pc[t] \in {"getting", "waiting", "timedout"}
    /\ \A t \in Tasks :
          (pc[t] = "holding" /\ origin[t] = "idle") =>
              /\ held[t] \in live
              /\ \A u \in Tasks \ {t} : held[u] # held[t]
              /\ \E u \in Released : u # t

\* N tasks hold the N connections they opened, nothing was released, and the
\* remaining call has failed with TimeoutError
C9_Witness ==
    /\ AllCalledNoneReleased
    /\ Cardinality(Creators) = MaxSize
    /\ \E t \in Tasks : pc[t] = "timedout"

C11_NoOvertakingOfWaiters ==
    [][\A t \in Tasks :
          (pc[t] \in AtRest /\ pc'[t] = "holding")
          => \A u \in Tasks : pc[u] # "waiting"]_vars

\* no task is inside a Pool call
PoolQuiet == \A t \in Tasks : pc[t] \in AtRest \cup {"holding"}

\* c can still be had from the pool or is in a caller's hands
Accounted(c) == c \in Range(queue) \/ \E t \in Tasks : pc[t] = "holding" /\ held[t] = c

\* C12: a task cancelled inside Pool.acquire() (on the idle queue, on the lock
\* or while opening a connection) leaks no slot: afterwards current_size is the
\* number of live connections, and each of them is idle in the queue or held.
C12_CancelLeaksNoSlot ==
    (PoolQuiet /\ \E t \in Tasks : pc[t] = "cancelled")
    => (current_size = Cardinality(live) /\ \A c \in live : Accounted(c))

\* the placeholders of a Postgres SQL text, left to right
PlaceholdersOf(sql) ==
    SelectSeq(sql, LAMBDA tok : \E k \in 1..Len(sql) : tok = Placeholder(k))

\* C13: in the SQL of every Postgres build() of the chain, the placeholders
\* read left to right are $1, $2, ..., $n with n the number of parameters,
\* whatever was compiled before on the same compiler.
C13_PlaceholdersNumbered ==
    \A b \in 1..Len(builds) :
        LET ps == PlaceholdersOf(builds[b].sql)
        IN  /\ Len(ps) = Len(builds[b].params)
            /\ \A k \in 1..Len(ps) : ps[k] = Placeholder(k)

\* C14: a build() leaves the state and every node in it as they were, and
\* each build() of the same state returns the SQL and the parameters that a
\* new compiler returns for it, the first build and the repeated one alike.
C14_CompileIsPure ==
    builds # <<>> =>
        /\ cq.state = before.state
        /\ \A b \in 1..Len(builds) :
              builds[b] = Output(compile(NewCompiler(EngineArg), cq.state))

\* the builder methods that add a clause to the statement under construction
ClauseOps ==
    {"FROM", "JOIN", "WHERE", "GROUP_BY", "WINDOW", "ORDER_BY", "LIMIT",
     "RETURNING"}

\* the number of statement-level calls among the first i calls: two clause
\* calls with the same number belong to the same statement
StatementOf(calls, i) ==
    Cardinality({j \in 1..i : calls[j].op \notin ClauseOps})

\* the orders in which the same clauses can be added to the same statements:
\* every other call stays where it is, a clause stays in its statement, and
\* two calls of one method keep their relative order
Reorderings(calls) ==
    {p \in [1..Len(calls) -> 1..Len(calls)] :
        /\ \A i, j \in 1..Len(calls) : i # j => p[i] # p[j]
        /\ \A i \in 1..Len(calls) :
              /\ calls[i].op \notin ClauseOps => p[i] = i
              /\ StatementOf(calls, p[i]) = StatementOf(calls, i)
        /\ \A i, j \in 1..Len(calls) :
              (i < j /\ calls[p[i]].op = calls[p[j]].op) => p[i] < p[j]}

\* C15: a call sequence that adds the clauses of the chain in another order
\* builds the same SQL and the same parameters as the chain itself.
C15_ClauseOrderIrrelevant ==
    \A p \in Reorderings(hist) :
        LET r == ReplayFrom(NewQuery, [i \in 1..Len(hist) |-> hist[p[i]]])
        IN  r.ok => Output(build(r.q)) = Output(build(cq))

\* the WHERE calls of the chain whose predicate is f == None or f != None
NullComparisons ==
    {i \in 1..Len(hist) :
        /\ hist[i].op = "WHERE"
        /\ hist[i].arg.kind = "Condition"
        /\ hist[i].arg.operator \in {"=", "<>"}
        /\ hist[i].arg.right = None}

\* C16: in every dialect, f == None compiles to '<field> IS NULL' and
\* f != None to '<field> IS NOT NULL', with no placeholder and no parameter.
C16_NoneComparesAsIsNull ==
    \A i \in NullComparisons : \A d \in Dialects :
        LET node == hist[i].arg
            r == compile_node(NewCompiler(d), node)
        IN  /\ r.sql = <<FieldStr(node.left),
                        IF node.operator = "=" THEN "IS NULL" ELSE "IS NOT NULL">>
            /\ r.params = <<>>

\* the WHERE calls of the chain whose predicate is f.IN(list) or f.NOT_IN(list)
ListMemberships ==
    {i \in 1..Len(hist) :
        /\ hist[i].op = "WHERE"
        /\ hist[i].arg.kind = "InCondition"
        /\ hist[i].arg.right.kind = "tuple"}

\* the tokens of a compiled predicate between its parentheses, commas left out
InsideParentheses(sql) ==
    SelectSeq(SubSeq(sql, 4, Len(sql) - 1), LAMBDA tok : tok # ",")

\* C17: in every dialect, IN and NOT_IN of a list of N values compile to
\* '<field> <operator> ( ... )' with exactly the N placeholders the dialect
\* numbers 1..N between the parentheses, in order, and the parameters are the
\* list, in its order.
C17_InListPlaceholders ==
    \A i \in ListMemberships : \A d \in Dialects :
        LET node == hist[i].arg
            r == compile_node(NewCompiler(d), node)
            ps == InsideParentheses(r.sql)
        IN  /\ SubSeq(r.sql, 1, 3) = <<FieldStr(node.left), node.operator, "(">>
            /\ r.sql[Len(r.sql)] = ")"
            /\ Len(ps) = Len(node.right.items)
            /\ \A k \in 1..Len(ps) :
                  ps[k] = next_placeholder([NewCompiler(d) EXCEPT
                                               !.placeholder_count = k - 1]).text
            /\ r.params = node.right.items

\* a chain with IN of a three-value list has been built
C17_Witness ==
    /\ builds # <<>>
    /\ \E i \in ListMemberships : Len(hist[i].arg.right.items) = 3

\* another value of the same type in the place of a non-null leaf value
OtherValue(v) ==
    CASE v.kind = "int" -> IntVal(v.val \o "0")
      [] v.kind = "str" -> Str(<<v.parts[1] \o "z">>)
      [] OTHER -> v

RECURSIVE Revalue(_)
\* a node or a row with every non-null leaf value replaced: comparison
\* operands, IN elements, BETWEEN bounds, row values, function and
\* window-function arguments; fields and the shape stay
Revalue(x) ==
    CASE x.kind \in {"int", "str"} -> OtherValue(x)
      [] x.kind = "tuple" -> Tuple([i \in 1..Len(x.items) |-> Revalue(x.items[i])])
      [] x.kind \in {"Condition", "InCondition"} -> [x EXCEPT !.right = Revalue(@)]
      [] x.kind = "BooleanCondition" ->
            [x EXCEPT !.left = Revalue(@), !.right = Revalue(@)]
      [] x.kind = "BetweenCondition" ->
            [x EXCEPT !.lower = Revalue(@), !.upper = Revalue(@)]
      [] x.kind \in {"Function", "JsonObject"} ->
            [x EXCEPT !.args = [i \in 1..Len(x.args) |-> Revalue(x.args[i])]]
      [] x.kind = "WindowFunction" ->
            [x EXCEPT !.args = [i \in 1..Len(x.args) |-> Revalue(x.args[i])],
                      !.filter = Revalue(@)]
      [] OTHER -> x

RECURSIVE Leaves(_)
\* the non-null leaf values of a node or a row
Leaves(x) ==
    CASE x.kind \in {"int", "str"} -> {x}
      [] x.kind = "tuple" -> UNION {Leaves(x.items[i]) : i \in 1..Len(x.items)}
      [] x.kind \in {"Condition", "InCondition"} -> Leaves(x.right)
      [] x.kind = "BooleanCondition" -> Leaves(x.left) \cup Leaves(x.right)
      [] x.kind = "BetweenCondition" -> Leaves(x.lower) \cup Leaves(x.upper)
      [] x.kind \in {"Function", "JsonObject"} ->
            UNION {Leaves(x.args[i]) : i \in 1..Len(x.args)}
      [] x.kind = "WindowFunction" ->
            UNION {Leaves(x.args[i]) : i \in 1..Len(x.args)} \cup Leaves(x.filter)
      [] OTHER -> {}

\* whether the argument of a call carries leaf values: an expression node
\* given to SELECT, WHERE or SET, or the rows given to VALUES; a string given
\* to these methods is SQL text, not a value
CarriesValues(c) ==
    \/ c.op \in {"SELECT", "WHERE", "SET"} /\ HasCompile(c.arg)
    \/ c.op = "VALUES"

\* the same call with other leaf values
RevalueCall(c) == IF CarriesValues(c) THEN [c EXCEPT !.arg = Revalue(@)] ELSE c

\* C18: the chain replayed with other non-null leaf values builds the same
\* SQL text, and every leaf value of an expression of the chain, and every
\* value of the rows of an INSERT, is among the parameters of its compilation.
C18_TextIndependentOfValues ==
    /\ LET r == ReplayFrom(NewQuery, [i \in 1..Len(hist) |-> RevalueCall(hist[i])])
       IN  r.ok /\ build(r.q).sql = build(cq).sql
    /\ \A i \in 1..Len(hist) :
          (hist[i].op # "VALUES" /\ CarriesValues(hist[i])) =>
              Leaves(hist[i].arg) \subseteq
                  Range(compile_node(NewCompiler(EngineArg), hist[i].arg).params)
    /\ cq.state.statement_type = "INSERT" =>
          \A k \in 1..Len(cq.state.insert_values) :
              Range(cq.state.insert_values[k]) \subseteq Range(build(cq).params)

RECURSIVE RowsOf(_)
\* the rows a VALUES argument list stands for: a list of plain values is one
\* row, a list of lists stands for the rows of its elements
RowsOf(x) ==
    IF \A i \in 1..Len(x.items) : x.items[i].kind # "tuple"
       THEN <<x.items>>
       ELSE IF Len(x.items) = 1 THEN RowsOf(x.items[1])
            ELSE RowsOf(x.items[1]) \o RowsOf(Tuple(Tail(x.items)))

RECURSIVE ValuesBefore(_, _)
\* the number of values in the first k - 1 rows
ValuesBefore(rows, k) ==
    IF k <= 1 THEN 0 ELSE ValuesBefore(rows, k - 1) + Len(rows[k - 1])

\* the tokens of an INSERT from its VALUES keyword on
FromValues(sql) ==
    LET at == CHOOSE i \in 1..Len(sql) : sql[i] = "VALUES"
    IN  SubSeq(sql, at, Len(sql))

\* what the claim says of the compilation of an INSERT with rows
RowsCompiled(q) ==
    (q.state.statement_type = "INSERT" /\ q.state.insert_values # <<>>) =>
        LET rows == q.state.insert_values
            r == compile_insert(NewCompiler(EngineArg), q.state)
            tail == FromValues(r.sql)
            ps == PlaceholdersOf(tail)
        IN  /\ Len(SelectSeq(tail, LAMBDA tok : tok = "(")) = Len(rows)
            /\ Len(ps) = ValuesBefore(rows, Len(rows) + 1)
            /\ \A k \in 1..Len(ps) : ps[k] = Placeholder(k)
            /\ Len(r.params) = Len(ps)
            /\ \A k \in 1..Len(rows) : \A j \in 1..Len(rows[k]) :
                  r.params[ValuesBefore(rows, k) + j] = rows[k][j]

\* C19: every VALUES call appends the rows of its arguments to the rows of
\* the state, one row for VALUES(a, b) and VALUES((a, b)), two for
\* VALUES((a, b), (c, d)) and VALUES([(a, b), (c, d)]); an INSERT with rows
\* compiles to one placeholder group per row, the placeholders numbered
\* through, and to the values of the rows in row-major order.
C19_ValuesRows ==
    [][/\ (hist' # hist /\ hist'[Len(hist')].op = "VALUES") =>
              cq'.state.insert_values =
                  cq.state.insert_values \o RowsOf(hist'[Len(hist')].arg)
       /\ RowsCompiled(cq')]_vars

\* an INSERT whose rows came from two VALUES calls, three rows in all, has
\* been built
C19_Witness ==
    /\ builds # <<>>
    /\ cq.state.statement_type = "INSERT"
    /\ Len(cq.state.insert_values) = 3
    /\ Cardinality({i \in 1..Len(hist) : hist[i].op = "VALUES"}) = 2

\* what a dialect's compiler returns for the state the chain has reached
Compilation(d) == Output(compile(NewCompiler(d), cq.state))

\* a token with a placeholder ($k, %s, ?) replaced by one common token
Common(tok, n) ==
    IF tok \in {"%s", "?"} \/ \E k \in 1..n : tok = Placeholder(k) THEN "?" ELSE tok

\* a SQL text with every placeholder replaced by the common token
CommonText(sql) == [k \in 1..Len(sql) |-> Common(sql[k], Len(sql))]

\* two compilations with the same parameters, and the same SQL text once
\* every placeholder is replaced by the common token
SameButPlaceholders(o1, o2) ==
    /\ o1.params = o2.params
    /\ CommonText(o1.sql) = CommonText(o2.sql)

\* the three compilations agree two by two
AllSameButPlaceholders(p, m, s) ==
    /\ SameButPlaceholders(p, m)
    /\ SameButPlaceholders(p, s)
    /\ SameButPlaceholders(m, s)

\* C20 as stated: the three dialects return the same parameters, and the
\* same SQL text once every placeholder is replaced by one common token.
C20_OnlyPlaceholdersDiffer ==
    AllSameButPlaceholders(Compilation("postgres"), Compilation("mysql"),
                           Compilation("sqlite"))

\* the strings given as arguments to the functions of the chain
InlinedStrings ==
    {v \in UNION {Leaves(hist[i].arg) : i \in {j \in 1..Len(hist) : CarriesValues(hist[j])}} :
        v.kind = "str"}

\* the name a dialect gives to a JsonObject
JsonNameIn(d) == IF d = "postgres" THEN "json_build_object" ELSE "json_object"

\* the literal a dialect inlines for a string argument of a function
LiteralIn(d, v) ==
    "'" \o (IF d = "mysql" THEN DoubleBackslashes(DoubleQuotes(Text(v)))
                           ELSE DoubleQuotes(Text(v))) \o "'"

\* two tokens at the same place of the texts of two dialects that differ in
\* the placeholder, in the name of a JsonObject or in the backslashes of an
\* inlined string at most
SameToken(d1, a, d2, b, n, strings) ==
    \/ Common(a, n) = Common(b, n)
    \/ a = JsonNameIn(d1) /\ b = JsonNameIn(d2)
    \/ \E v \in strings : a = LiteralIn(d1, v) /\ b = LiteralIn(d2, v)

\* two compilations with the same parameters and the same tokens, place by place
SameByDesign(d1, o1, d2, o2, strings) ==
    /\ o1.params = o2.params
    /\ Len(o1.sql) = Len(o2.sql)
    /\ \A k \in 1..Len(o1.sql) :
          SameToken(d1, o1.sql[k], d2, o2.sql[k], Len(o1.sql), strings)

\* the three compilations agree two by two
AllSameByDesign(p, m, s, strings) ==
    /\ SameByDesign("postgres", p, "mysql", m, strings)
    /\ SameByDesign("postgres", p, "sqlite", s, strings)
    /\ SameByDesign("mysql", m, "sqlite", s, strings)

\* C20, amended: the three dialects return the same parameters, and SQL
\* texts that differ only in the placeholders, in the name of a JsonObject
\* function and in the doubled backslashes of the strings MySQL inlines.
C20_DialectsDifferByDesign ==
    AllSameByDesign(Compilation("postgres"), Compilation("mysql"),
                    Compilation("sqlite"), InlinedStrings)

\* a statement that selects a JsonObject and binds a comparison operand has
\* been built
C20_Witness ==
    /\ builds # <<>>
    /\ cq.state.selects # <<>>
    /\ cq.state.selects[1].kind = "JsonObject"
    /\ \E k \in 1..Len(cq.state.wheres) : cq.state.wheres[k].kind = "Condition"

\* the table of the column a SELECT call was given: the Table itself, or the
\* table of the Field
SelectedTable(c) == IF c.arg.kind = "Table" THEN c.arg ELSE c.arg.table

\* the SELECT calls of a call sequence with a Table or a Field of a table for
\* column that are followed at once by WHERE
ImplicitFrom(calls) ==
    {i \in 1..(Len(calls) - 1) :
        /\ calls[i].op = "SELECT"
        /\ \/ calls[i].arg.kind = "Table"
           \/ calls[i].arg.kind = "Field" /\ calls[i].arg.table.kind # "None"
        /\ calls[i + 1].op = "WHERE"}

\* the call sequence with FROM(table of the column) put between the SELECT
\* at place i and its WHERE
WithFrom(calls, i) ==
    SubSeq(calls, 1, i) \o <<[op |-> "FROM", arg |-> SelectedTable(calls[i])]>>
    \o SubSeq(calls, i + 1, Len(calls))

\* a chain whose WHERE follows a SELECT of a Table or Field builds what the
\* chain with the explicit FROM builds
SameAsExplicitFrom(calls, q) ==
    \A i \in ImplicitFrom(calls) :
        LET r == ReplayFrom(NewQuery, WithFrom(calls, i))
        IN  r.ok /\ Output(build(r.q)) = Output(build(q))

\* C21: WHERE right after a SELECT of a Table or of a Field builds the SQL
\* and the parameters of the same chain with FROM(the column's table) called
\* before WHERE; WHERE on an UPDATE or DELETE statement adds no FROM source.
C21_WhereSynthesizesFrom ==
    [][/\ (/\ hist' # hist
           /\ hist'[Len(hist')].op = "WHERE"
           /\ cq.state.statement_type \in {"UPDATE", "DELETE"}) =>
              cq'.state.from_sources = cq.state.from_sources
       /\ SameAsExplicitFrom(hist', cq')]_vars

\* C22: every state in the chain of every Query is dirty (a statement type
\* other than SELECT, or selects, or FROM sources), and none compiles to
\* what the untouched default state compiles to.
C22_ChainHoldsDirtyStates ==
    \A o \in 1..Len(objs) : \A k \in 1..Len(objs[o].state.chain) :
        LET s == objs[o].state.chain[k]
        IN  /\ is_dirty(s)
            /\ compile_single(NewCompiler(EngineArg), s).sql
                  # compile_single(NewCompiler(EngineArg), NewQueryState).sql

\* a Query holds two archived statements, the first archived by the first
\* call made on a new Query
C22_Witness ==
    \E o \in 1..Len(objs) :
        /\ Len(objs[o].state.chain) >= 2
        /\ objs[o].state.chain[1].chain = <<>>

RECURSIVE SplitStatements(_)
\* the statements of a compiled text: the token runs between the ";" tokens
SplitStatements(sql) ==
    IF \A k \in 1..Len(sql) : sql[k] # ";" THEN <<sql>>
    ELSE LET at == CHOOSE k \in 1..Len(sql) :
                      sql[k] = ";" /\ \A j \in 1..(k - 1) : sql[j] # ";"
         IN  <<SubSeq(sql, 1, at - 1)>> \o SplitStatements(SubSeq(sql, at + 1, Len(sql)))

RECURSIVE ParamsOfEach(_)
\* the parameters of the states of a list, each compiled by itself, in order
ParamsOfEach(states) ==
    IF states = <<>> THEN <<>>
    ELSE compile_single(NewCompiler(EngineArg), Head(states)).params
         \o ParamsOfEach(Tail(states))

\* the output holds the statements of the states, one each and in order
StatementsInOrder(out, stmts, states) ==
    /\ Len(stmts) = Len(states)
    /\ \A k \in 1..Len(states) :
          CommonText(stmts[k])
              = CommonText(compile_single(NewCompiler(EngineArg), states[k]).sql)
    /\ out.params = ParamsOfEach(states)

\* what the claim says of one output
ChainCompiled(out, q) ==
    StatementsInOrder(out, SplitStatements(out.sql), Append(q.state.chain, q.state))

\* C23: the compiled output is the archived statements, each once and in the
\* order of the chain, then the live statement, separated by ";": each is
\* the statement its state compiles to by itself, up to the numbering of the
\* placeholders, and the parameters are theirs in the same order.
C23_ChainCompiledInOrder == ChainCompiled(Output(build(cq)), cq)

\* a chain of two archived statements and a live one, with a bound value,
\* has been built
C23_Witness ==
    /\ builds # <<>>
    /\ Len(cq.state.chain) = 2
    /\ builds[1].params # <<>>

\* C24: UNION, UPSERT and WITHOUT raise, and the Query they were called on
\* is what it was before the call (state, chain, call stack), so that it
\* builds the same SQL and parameters.
C24_NotImplementedRaises ==
    call.op \in {"UNION", "UPSERT", "WITHOUT"} =>
        /\ call.ret = Raised
        /\ objs[call.recv].state = call.pre.state
        /\ objs[call.recv].callstack = call.pre.callstack
        /\ Output(build(objs[call.recv])) = Output(build(call.pre))

\* UPSERT was called on a Query that holds an archived statement and a live
\* INSERT
C24_Witness ==
    /\ call.op = "UPSERT"
    /\ call.pre.state.chain # <<>>
    /\ call.pre.state.statement_type = "INSERT"
    /\ call.pre.state.insert_values # <<>>

\* C25: no WHERE call returns unless its argument is a string or has a
\* compile method, and the built SQL holds no predicate made from anything
\* else.
C25_WhereRejectsMalformed ==
    /\ \A i \in 1..Len(hist) :
          hist[i].op = "WHERE" => (hist[i].arg.kind = "str" \/ HasCompile(hist[i].arg))
    /\ \A k \in 1..Len(cq.state.wheres) :
          cq.state.wheres[k].kind = "str" \/ HasCompile(cq.state.wheres[k])

(***************************************************************************)
(* Claims about Connection.begin/done and Database.connect/disconnect.     *)
(***************************************************************************)
\* the call that the step makes, if it is a call of op on vendor v
Calls(op, v) == nops' = nops + 1 /\ lastcall'.op = op /\ lastcall'.vendor = v

\* the step changes nothing of the Connection and makes no call to its pool
PoolUntouched(v) == lastcall'.pool = <<>> /\ lent'[v] = lent[v] /\ session'[v] = session[v]

BeginContract(v) ==
    Calls("begin", v) =>
        IF session[v] = NoConn
           THEN /\ lastcall'.raised # "AssertionError"
                /\ lastcall'.pool = <<<<"acquire">>>>
                /\ lastcall'.raised = "none" =>
                      /\ session'[v] # NoConn
                      /\ lent'[v] = lent[v] \cup {session'[v]}
                      /\ session'[v] \notin lent[v]
           ELSE lastcall'.raised = "AssertionError" /\ PoolUntouched(v)

DoneContract(v) ==
    Calls("done", v) =>
        IF session[v] # NoConn
           THEN /\ lastcall'.raised = "none"
                /\ lastcall'.pool = <<<<"release", session[v]>>>>
                /\ lent'[v] = lent[v] \ {session[v]}
                /\ session'[v] = NoConn
           ELSE lastcall'.raised = "AssertionError" /\ PoolUntouched(v)

\* C26: on every vendor, begin() without a session makes one acquire on the
\* pool and stores what it returns, done() with a session releases it and
\* clears it, and begin() with a session or done() without one raises an
\* AssertionError and leaves the pool alone.
C26_BeginDoneContract == [][\A v \in Vendors : BeginContract(v) /\ DoneContract(v)]_vars

DatabaseUnchanged(v) ==
    /\ db_connected'[v] = db_connected[v]
    /\ engine_pool'[v] = engine_pool[v]
    /\ pools_made'[v] = pools_made[v]

ConnectContract(v) ==
    Calls("connect", v) =>
        IF db_connected[v]
           THEN lastcall'.raised = "AssertionError" /\ DatabaseUnchanged(v)
           ELSE /\ lastcall'.raised # "AssertionError"
                /\ IF lastcall'.raised = "none"
                      THEN /\ db_connected'[v]
                           /\ engine_pool'[v] # NoPool
                           /\ engine_pool'[v] \notin 1..pools_made[v]
                      ELSE DatabaseUnchanged(v)

DisconnectContract(v) ==
    Calls("disconnect", v) =>
        IF ~db_connected[v]
           THEN lastcall'.raised = "AssertionError" /\ DatabaseUnchanged(v)
           ELSE /\ lastcall'.raised # "AssertionError"
                /\ IF lastcall'.raised = "none"
                      THEN ~db_connected'[v] /\ engine_pool'[v] = NoPool
                      ELSE DatabaseUnchanged(v)

WindowCalls == {i \in 1..Len(hist) : hist[i].op = "SELECT" /\ hist[i].arg.kind = "WindowFunction"}

\* the parts of a compiled window function stand in the order call, FILTER,
\* OVER, AS
PartsInOrder(r, w) ==
    /\ r.sql[1] = w.name /\ r.sql[2] = "("
    /\ (w.distinct /\ w.args # <<>>) => r.sql[3] = "DISTINCT"
    /\ w.filter.kind # "None" => "FILTER" \in Range(r.sql)
    /\ w.over.kind # "None" => "OVER" \in Range(r.sql)
    /\ (w.filter.kind # "None" /\ w.over.kind # "None") =>
          IndexOf("FILTER", r.sql) < IndexOf("OVER", r.sql)
    /\ w.alias # "None" =>
          /\ r.sql[Len(r.sql) - 1] = "AS" /\ r.sql[Len(r.sql)] = w.alias
          /\ \A tok \in {"FILTER", "OVER"} :
                tok \in Range(r.sql) => IndexOf(tok, r.sql) < Len(r.sql) - 1

\* the parameters of a compiled window function are those of its
\* placeholders read left to right (Postgres numbers them), and the value a
\* FILTER comparison is made with is the parameter of its placeholder
ParamsInOrder(r, w) ==
    /\ PlaceholdersOf(r.sql) = [k \in 1..Len(r.params) |-> Placeholder(k)]
    /\ w.filter.kind = "Condition" =>
          \E k \in 1..Len(r.params) :
              /\ r.sql[IndexOf("WHERE", r.sql) + 3] = Placeholder(k)
              /\ r.params[k] = w.filter.right

\* C28: every window function of the chain compiles to NAME([DISTINCT] args),
\* then FILTER (WHERE ...) if a filter was set, then OVER if OVER was called,
\* then AS alias, with the parameters in the order of their placeholders.
C28_WindowPartsInOrder ==
    \A i \in WindowCalls :
        /\ PartsInOrder(compile_node(NewCompiler(EngineArg), hist[i].arg), hist[i].arg)
        /\ ParamsInOrder(compile_node(NewCompiler(EngineArg), hist[i].arg), hist[i].arg)

(***************************************************************************)
(* Further claims about the pool.                                          *)
(***************************************************************************)
\* task t starts opening a connection in this step (sqlite.py lines 135-146)
StartsOpening(t) == pc[t] # "opening" /\ pc'[t] = "opening"

\* C29: when a task starts opening a new connection the idle queue is empty
\* and current_size is below max_size, also when the task had to wait for the
\* lock and a connection was released meanwhile.
C29_OpensOnlyWhenNoneIdle ==
    [][\A t \in Tasks : StartsOpening(t) => (queue = <<>> /\ current_size < MaxSize)]_vars

\* close() returns in this step
CloseReturns == (CloseStart \/ CloseStep) /\ closer_pc' = "idle"

Borrowers == {t \in Tasks : held[t] # NoConn}

\* the tasks inside connection.__aenter__()
Openers == {t \in Tasks : pc[t] = "opening"}

C32_BorrowedByOneOnly ==
    /\ \A t1, t2 \in Borrowers : t1 # t2 => held[t1] # held[t2]
    /\ \A t \in Borrowers : held[t] \notin Range(queue) /\ held[t] # closer_conn
    /\ \A i, j \in 1..Len(queue) : i # j => queue[i] # queue[j]

\* two tasks hold a connection at once, one of them taken from the idle queue
C32_Witness ==
    \E t1, t2 \in Borrowers : t1 # t2 /\ origin[t1] = "idle" /\ pc[t1] = "holding" /\ pc[t2] = "holding"

\* what current_size stands for: idle, borrowed and being opened
InUse == Len(queue) + Cardinality(Borrowers) + Cardinality(Openers)

ChainLenAfter(calls, i) == Len(ReplayFrom(NewQuery, SubSeq(calls, 1, i)).q.state.chain)

\* the place of the call that opened the live statement: the last call that
\* archived a statement, or the first call
LiveStart(calls) ==
    LET archiving == {i \in 1..Len(calls) : ChainLenAfter(calls, i) > ChainLenAfter(calls, i - 1)}
    IN  IF archiving = {} THEN 1
        ELSE CHOOSE i \in archiving : \A j \in archiving : j <= i

RECURSIVE ReplayAlone(_, _)
\* a call sequence made on q, each WHERE going over the table names q holds
\* by then
ReplayAlone(q, calls) ==
    IF calls = <<>> THEN [ok |-> TRUE, q |-> q]
    ELSE LET c == Head(calls)
             r == Apply(q, IF c.op = "WHERE"
                              THEN [c EXCEPT !.names = CHOOSE n \in Orderings(q.tablenames) : TRUE]
                              ELSE c)
         IN  IF r.ok THEN ReplayAlone(r.q, Tail(calls)) ELSE r

\* the calls of the live statement made on a new Query
LiveAlone(calls) == ReplayAlone(NewQuery, SubSeq(calls, LiveStart(calls), Len(calls)))

\* the sources of q are those of the live statement built alone
SourcesOfLiveStatement(alone, q) ==
    alone.ok => Range(q.state.from_sources) = Range(alone.q.state.from_sources)

\* C34: after a WHERE on a SELECT statement, the FROM sources of the live
\* statement are those the calls of that statement give on a Query without
\* earlier statements: what was archived neither suppresses the synthesized
\* FROM nor adds sources to it.
C34_SynthesisPerStatement ==
    (/\ hist # <<>>
     /\ hist[Len(hist)].op = "WHERE"
     /\ cq.state.statement_type = "SELECT")
    => SourcesOfLiveStatement(LiveAlone(hist), cq)

\* the calls after an INSERT_INTO and a SELECT are FROM and WHERE calls only
InsertSelectCalls(calls) ==
    /\ Len(calls) >= 2
    /\ calls[1].op = "INSERT_INTO"
    /\ calls[2].op = "SELECT"
    /\ \A i \in 3..Len(calls) : calls[i].op \in {"FROM", "WHERE"}

\* q, reached by calls, is one INSERT statement whose text is the INSERT
\* head followed by what the calls after INSERT_INTO build on a new Query,
\* with the same parameters
InsertSelect(q, out, alone) ==
    /\ q.state.chain = <<>>
    /\ q.state.statement_type = "INSERT"
    /\ alone.ok
    /\ out.sql = <<"INSERT INTO", Quote(TableArg), "(", Quote(ColumnArg), ")">>
                 \o build(alone.q).sql
    /\ out.params = build(alone.q).params

\* C35: SELECT on a live INSERT without VALUES neither archives it nor
\* changes its type: after INSERT_INTO, SELECT and any FROM and WHERE calls,
\* and after one more WHERE on INSERT_INTO, SELECT, FROM, the Query compiles
\* to one statement, INSERT INTO t (cols) followed by the SELECT statement,
\* with the parameters of the SELECT statement.
C35_InsertSelectIsOneStatement ==
    (InsertSelectCalls(hist) /\ cq = ReplayFrom(NewQuery, hist).q)
    => /\ InsertSelect(cq, Output(build(cq)), ReplayFrom(NewQuery, Tail(hist)))
       /\ hist[Len(hist)].op = "FROM"
          => \A a \in WhereInputs :
                LET c == [op |-> "WHERE", arg |-> a, names |-> <<>>]
                IN  InsertSelect(Apply(cq, c).q, Output(build(Apply(cq, c).q)),
                                 ReplayFrom(NewQuery, Tail(Append(hist, c))))

C35_Witness ==
    /\ InsertSelectCalls(hist)
    /\ cq = ReplayFrom(NewQuery, hist).q
    /\ hist[Len(hist)].op = "FROM"
    /\ \E a \in WhereInputs :
          build(Apply(cq, [op |-> "WHERE", arg |-> a, names |-> <<>>]).q).params # <<>>

\* the parameter a Postgres placeholder binds: $k binds params[k]
BoundBy(tok, n) == {k \in 1..n : tok = Placeholder(k)}

\* C36: in every build() of the chain, also of a Query whose CTE is a Query
\* with a parameterised predicate, the compiled SQL holds as many
\* placeholders as there are parameters, and the i-th placeholder of the
\* text binds the i-th parameter.
C36_PlaceholdersBindParams ==
    \A b \in 1..Len(builds) :
        LET ps == PlaceholdersOf(builds[b].sql)
        IN  /\ Len(ps) = Len(builds[b].params)
            /\ \A i \in 1..Len(ps) : BoundBy(ps[i], Len(builds[b].sql)) = {i}

\* the step is a builder call that raised
CallRaised == hist' # hist /\ ~Apply(cq, hist'[Len(hist')]).ok

\* a WHERE and a build() on q and on r give the same Query and the same output
SameWhereAndBuild(q, r) ==
    \A a \in WhereInputs : \A names \in Orderings(q.tablenames) :
        LET c == [op |-> "WHERE", arg |-> a, names |-> names]
        IN  /\ Apply(r, c) = Apply(q, c)
            /\ Apply(q, c).ok => Output(build(Apply(r, c).q)) = Output(build(Apply(q, c).q))

\* C37: a builder call that raises ArgumentError leaves the Query it was
\* called on as it was - state, chain, call stack, from list - with the
\* pause flag set or not, and a WHERE and a build() after it give what they
\* give without the failed call.
C37_RaisingCallLeavesQuery ==
    [][CallRaised => (cq' = cq /\ SameWhereAndBuild(cq, cq'))]_vars

\* C39: in every state, of each vendor's Database, connected is True exactly
\* when the engine holds a pool - after connect(), disconnect(), the ones that
\* failed, and Engine.connection().
C39_ConnectedIffPool ==
    \A v \in Vendors : db_connected[v] <=> engine_pool[v] # NoPool

====
